---- MODULE Spec2Model ----
(***************************************************************************)
(* A model of five components of the ElevenLabs conversational-AI plugin   *)
(* for Obsidian:                                                           *)
(*   - the bounded cache of PerformanceManager        (CacheSpec)          *)
(*   - the fuzzy title matcher lookupNote              (LookupSpec)        *)
(*   - the TF-IDF index VectorEmbeddingsManager        (IndexSpec)         *)
(*   - the content search searchNotesByContent         (SearchSpec)        *)
(*   - the vault events and the debounced embedding    (SchedSpec)         *)
(*     updates of PerformanceManager, over its cache                       *)
(* Each component has its own next-state relation over its own variables   *)
(* and leaves the other components' variables untouched.                   *)
(***************************************************************************)
EXTENDS Integers, Sequences, FiniteSets, TLC

VARIABLES
    cache,              \* PerformanceManager.cache: Map in insertion order, as a sequence of entries
    currentCacheSize,   \* PerformanceManager.currentCacheSize
    cacheHits,          \* PerformanceManager.cacheHits
    cacheMisses,        \* PerformanceManager.cacheMisses
    now,                \* Date.now(), in milliseconds since the manager was constructed
    cret,               \* the last cache call, its maxAge or ttl (age), and what it returned
    vault,              \* app.vault.getFiles(): the files in enumeration order
    lres,               \* the last lookupNote call on the current files: title, winning candidate, path returned
    docs,               \* the notes of the vault the index reads: for each path, whether it exists, is readable, and its text
    embeddings,         \* VectorEmbeddingsManager.embeddings: Map in insertion order, as a sequence
    vocabulary,         \* VectorEmbeddingsManager.vocabulary
    idfScores,          \* VectorEmbeddingsManager.idfScores
    isInitialized,      \* VectorEmbeddingsManager.isInitialized
    tasks,              \* the asynchronous calls on the index that are in flight, each where it awaits
    ires,               \* the last call on the index that completed, and what it returned
    nCalls,             \* the number of calls made on the index
    nChanges,           \* the number of changes the document store went through
    notes,              \* the markdown files searchNotesByContent reads, in enumeration order: name and content
    stask,              \* the searchNotesByContent call in flight, where it awaits its next read
    sres,               \* the last searchNotesByContent call that completed, and what it returned
    vfiles,             \* the files the vault events are about: for each file, whether it exists, its path and its stat.mtime
    pendingUpdate,      \* the debouncer of scheduleEmbeddingUpdate: the arguments of the call its timer waits for
    inflight,           \* the processFileForEmbedding calls that await their read, each with its cacheKey
    awaiting            \* the files passed to scheduleEmbeddingUpdate that processFileForEmbedding has not been called with

cacheVars == <<cache, currentCacheSize, cacheHits, cacheMisses, now, cret>>

lookupVars == <<vault, lres>>

indexVars == <<docs, embeddings, vocabulary, idfScores, isInitialized, tasks, ires, nCalls, nChanges>>

searchVars == <<notes, stask, sres>>

schedVars == <<vfiles, pendingUpdate, inflight, awaiting>>

vars == <<cache, currentCacheSize, cacheHits, cacheMisses, now, cret, vault, lres,
          docs, embeddings, vocabulary, idfScores, isInitialized, tasks, ires, nCalls, nChanges,
          notes, stask, sres, vfiles, pendingUpdate, inflight, awaiting>>

(***************************************************************************)
(* Generic helpers.                                                        *)
(***************************************************************************)
Min2(a, b) == IF a <= b THEN a ELSE b

Max2(a, b) == IF a >= b THEN a ELSE b

Range(s) == {s[i] : i \in 1..Len(s)}

\* Array.prototype.slice(0, n)
Take(s, n) == IF n <= 0 THEN <<>> ELSE SubSeq(s, 1, Min2(n, Len(s)))

(***************************************************************************)
(* Bounded cache (PerformanceManager).                                     *)
(***************************************************************************)
Keys == {"k1", "k2", "k3"}

Values == {"small", "mid", "huge", "cyclic"}

MB == 1024 * 1024

\* private maxCacheSize = 50 * 1024 * 1024
maxCacheSize == 50 * MB

\* the default of cacheGet's maxAge and of cacheSet's ttl, and performCacheCleanup's oneHour
OneHour == 3600000

\* The clock advances in steps of TickMs, MaxTicks times at most.
TickMs == 1800001

MaxTicks == 3

\* cacheGet calls are counted by cacheHits + cacheMisses; at most MaxLookups are made.
MaxLookups == 2

\* the maxAge arguments cacheGet is called with
MaxAges == {OneHour, OneHour \div 2}

\* the ttl arguments cacheSet is called with
Ttls == {OneHour, 1000}

\* JSON.stringify(obj) returns: it throws a TypeError on an object that holds
\* a reference to itself, which the value "cyclic" stands for
CanStringify(obj) == obj # "cyclic"

\* estimateObjectSize: the byte length of JSON.stringify(obj); the values stand
\* for objects of 20MB, 30MB and 60MB of JSON, and "processed" for the
\* { file, size } object of processFileForEmbedding, of some 64 bytes.
estimateObjectSize(obj) ==
    CASE obj = "small" -> 20 * MB
      [] obj = "mid"   -> 30 * MB
      [] obj = "huge"  -> 60 * MB
      [] obj = "processed" -> 64

CacheHas(c, key) == \E i \in 1..Len(c) : c[i].key = key

CacheIndex(c, key) == CHOOSE i \in 1..Len(c) : c[i].key = key

CacheDeleteKey(c, key) == SelectSeq(c, LAMBDA e : e.key # key)

\* The eviction score of evictLeastRecentlyUsed's comparator,
\* accessCount + (Date.now() - timestamp) / 1000000, times 1000000.
EvictScore(e, t) == e.accessCount * 1000000 + (t - e.timestamp)

\* Array.prototype.sort with the comparator scoreA - scoreB: ascending, stable.
RECURSIVE InsertByScore(_, _, _)
InsertByScore(e, sorted, t) ==
    IF sorted = <<>> THEN <<e>>
    ELSE IF EvictScore(Head(sorted), t) <= EvictScore(e, t)
         THEN <<Head(sorted)>> \o InsertByScore(e, Tail(sorted), t)
         ELSE <<e>> \o sorted

RECURSIVE SortByScore(_, _)
SortByScore(s, t) ==
    IF s = <<>> THEN <<>>
    ELSE InsertByScore(s[Len(s)], SortByScore(SubSeq(s, 1, Len(s) - 1), t), t)

\* The loop of evictLeastRecentlyUsed over the sorted entries: delete, deduct,
\* and stop once freedSpace >= requiredSpace.
RECURSIVE EvictLoop(_, _, _, _, _)
EvictLoop(entries, c, cur, freedSpace, requiredSpace) ==
    IF entries = <<>> THEN [cache |-> c, size |-> cur]
    ELSE LET e     == Head(entries)
             c2    == CacheDeleteKey(c, e.key)
             cur2  == cur - e.size
             freed == freedSpace + e.size
         IN  IF freed >= requiredSpace
             THEN [cache |-> c2, size |-> cur2]
             ELSE EvictLoop(Tail(entries), c2, cur2, freed, requiredSpace)

evictLeastRecentlyUsed(c, cur, requiredSpace, t) ==
    EvictLoop(SortByScore(c, t), c, cur, 0, requiredSpace)

\* The state cacheSet(key, data, ttl) leaves: [cache, size].  ttl is not read.
cacheSetResult(c, cur, key, data, ttl, t) ==
    LET size  == estimateObjectSize(data)
        room  == IF cur + size > maxCacheSize
                 THEN evictLeastRecentlyUsed(c, cur, size, t)
                 ELSE [cache |-> c, size |-> cur]
        entry == [key |-> key, data |-> data, timestamp |-> t,
                  accessCount |-> 0, size |-> size]
        had   == CacheHas(room.cache, key)
        cur2  == IF had THEN room.size - room.cache[CacheIndex(room.cache, key)].size
                 ELSE room.size
        c2    == IF had
                 THEN [room.cache EXCEPT ![CacheIndex(room.cache, key)] = entry]
                 ELSE Append(room.cache, entry)
    IN  [cache |-> c2, size |-> cur2 + size]

\* cacheSet(key, data, ttl).  Nothing catches the TypeError of JSON.stringify:
\* the call ends on its first line and leaves the cache as it was.
cacheSet(key, data, ttl) ==
    /\ IF CanStringify(data)
       THEN LET r == cacheSetResult(cache, currentCacheSize, key, data, ttl, now)
            IN  /\ cache' = r.cache
                /\ currentCacheSize' = r.size
                /\ cret' = [op |-> "set", key |-> key, age |-> ttl, val |-> data]
                /\ UNCHANGED <<cacheHits, cacheMisses, now>>
       ELSE /\ cret' = [op |-> "throw", key |-> key, age |-> 0, val |-> "TypeError"]
            /\ UNCHANGED <<cache, currentCacheSize, cacheHits, cacheMisses, now>>
    /\ UNCHANGED <<lookupVars, indexVars, searchVars, schedVars>>

\* an expiry test that no entry fails
NeverExpired(entry, maxAge, t) == FALSE

\* if (Date.now() - entry.timestamp > maxAge)
IsExpired(entry, maxAge, t) == t - entry.timestamp > maxAge

cacheGet(key, maxAge) ==
    /\ cacheHits + cacheMisses < MaxLookups
    /\ IF ~CacheHas(cache, key)
       THEN /\ cacheMisses' = cacheMisses + 1
            /\ cret' = [op |-> "get", key |-> key, age |-> maxAge, val |-> "null"]
            /\ UNCHANGED <<cache, currentCacheSize, cacheHits>>
       ELSE LET i == CacheIndex(cache, key)
                entry == cache[i]
            IN  IF IsExpired(entry, maxAge, now)
                THEN /\ cache' = CacheDeleteKey(cache, key)
                     /\ currentCacheSize' = currentCacheSize - entry.size
                     /\ cacheMisses' = cacheMisses + 1
                     /\ cret' = [op |-> "get", key |-> key, age |-> maxAge, val |-> "null"]
                     /\ UNCHANGED cacheHits
                ELSE /\ cache' = [cache EXCEPT ![i].accessCount = @ + 1,
                                               ![i].timestamp = now]
                     /\ cacheHits' = cacheHits + 1
                     /\ cret' = [op |-> "get", key |-> key, age |-> maxAge, val |-> entry.data]
                     /\ UNCHANGED <<currentCacheSize, cacheMisses>>
    /\ UNCHANGED now
    /\ UNCHANGED <<lookupVars, indexVars, searchVars, schedVars>>

\* a delete that leaves the aggregate size as it was
cacheDeleteResult_NoDeduct(c, cur, key) ==
    [cache |-> CacheDeleteKey(c, key), size |-> cur]

cacheDeleteResult(c, cur, key) ==
    IF CacheHas(c, key)
    THEN [cache |-> CacheDeleteKey(c, key), size |-> cur - c[CacheIndex(c, key)].size]
    ELSE [cache |-> c, size |-> cur]

cacheDelete(key) ==
    /\ LET r == cacheDeleteResult(cache, currentCacheSize, key)
       IN  /\ cache' = r.cache
           /\ currentCacheSize' = r.size
           /\ cret' = [op |-> "delete", key |-> key, age |-> 0, val |-> "void"]
           /\ UNCHANGED <<cacheHits, cacheMisses, now>>
    /\ UNCHANGED <<lookupVars, indexVars, searchVars, schedVars>>

cacheClear ==
    /\ cache' = <<>>
    /\ currentCacheSize' = 0
    /\ cacheHits' = 0
    /\ cacheMisses' = 0
    /\ cret' = [op |-> "clear", key |-> "", age |-> 0, val |-> "void"]
    /\ UNCHANGED now
    /\ UNCHANGED <<lookupVars, indexVars, searchVars, schedVars>>

\* performCacheCleanup: cacheDelete of every entry older than an hour with
\* fewer than two accesses.
RECURSIVE CleanupLoop(_, _, _, _)
CleanupLoop(entries, c, cur, t) ==
    IF entries = <<>> THEN [cache |-> c, size |-> cur]
    ELSE LET e == Head(entries)
             r == IF t - e.timestamp > OneHour /\ e.accessCount < 2
                  THEN cacheDeleteResult(c, cur, e.key)
                  ELSE [cache |-> c, size |-> cur]
         IN  CleanupLoop(Tail(entries), r.cache, r.size, t)

performCacheCleanup ==
    /\ LET r == CleanupLoop(cache, cache, currentCacheSize, now)
       IN  /\ cache' = r.cache
           /\ currentCacheSize' = r.size
           /\ cret' = [op |-> "cleanup", key |-> "", age |-> 0, val |-> "void"]
           /\ UNCHANGED <<cacheHits, cacheMisses, now>>
    /\ UNCHANGED <<lookupVars, indexVars, searchVars, schedVars>>

\* The passage of time between two calls.
Tick ==
    /\ now + TickMs <= MaxTicks * TickMs
    /\ now' = now + TickMs
    /\ UNCHANGED <<cache, currentCacheSize, cacheHits, cacheMisses, cret>>
    /\ UNCHANGED <<lookupVars, indexVars, searchVars, schedVars>>

CacheInit ==
    /\ cache = <<>>
    /\ currentCacheSize = 0
    /\ cacheHits = 0
    /\ cacheMisses = 0
    /\ now = 0
    /\ cret = [op |-> "new", key |-> "", age |-> 0, val |-> "void"]

CacheNext ==
    \/ \E k \in Keys, v \in Values, ttl \in Ttls : cacheSet(k, v, ttl)
    \/ \E k \in Keys, a \in MaxAges : cacheGet(k, a)
    \/ \E k \in Keys : cacheDelete(k)
    \/ cacheClear
    \/ performCacheCleanup
    \/ Tick

(***************************************************************************)
(* Fuzzy title matcher (lookupNote).  A string is a sequence of one-       *)
(* character strings.                                                      *)
(***************************************************************************)
\* the null lookupNote returns for "no match", where a path is a <<folder, name>> pair
NULL == <<>>

\* String.prototype.toLowerCase, on the letters the model uses
LowerChar(ch) ==
    CASE ch = "A" -> "a"
      [] ch = "B" -> "b"
      [] OTHER    -> ch

toLowerCase(s) == [i \in 1..Len(s) |-> LowerChar(s[i])]

\* \s of the regular expressions, on the characters the model uses
IsSpace(ch) == ch = " "

\* String.prototype.trim
RECURSIVE TrimLeft(_)
TrimLeft(s) ==
    IF s # <<>> /\ IsSpace(Head(s)) THEN TrimLeft(Tail(s)) ELSE s

RECURSIVE TrimRight(_)
TrimRight(s) ==
    IF s # <<>> /\ IsSpace(s[Len(s)]) THEN TrimRight(SubSeq(s, 1, Len(s) - 1)) ELSE s

trim(s) == TrimRight(TrimLeft(s))

\* String.prototype.includes
includes(s, sub) ==
    \E i \in 1..(Len(s) - Len(sub) + 1) : SubSeq(s, i, i + Len(sub) - 1) = sub

\* String.prototype.startsWith
startsWith(s, sub) == Len(sub) <= Len(s) /\ SubSeq(s, 1, Len(sub)) = sub

\* String.prototype.replace(pat, ''): the first occurrence of pat is removed
replaceFirst(s, pat) ==
    IF includes(s, pat)
    THEN LET i == CHOOSE k \in 1..(Len(s) - Len(pat) + 1) :
                     /\ SubSeq(s, k, k + Len(pat) - 1) = pat
                     /\ \A j \in 1..(k - 1) : SubSeq(s, j, j + Len(pat) - 1) # pat
         IN  SubSeq(s, 1, i - 1) \o SubSeq(s, i + Len(pat), Len(s))
    ELSE s

DotMd == <<".", "m", "d">>

\* the character class of sanitizeSearchTerm: [/\\?%*:|"<>\s\-_.]
SanitizedAway == {"/", "\\", "?", "%", "*", ":", "|", "\"", "<", ">", " ", "-", "_", "."}

sanitizeSearchTerm(term) ==
    trim(SelectSeq(toLowerCase(term), LAMBDA ch : ch \notin SanitizedAway))

\* the character class [\s\-_] that calculatePartialMatch splits words on
IsWordSep(ch) == IsSpace(ch) \/ ch = "-" \/ ch = "_"

\* split(/[\s\-_]+/).filter(w => w.length > 0)
RECURSIVE SplitLoop(_, _, _)
SplitLoop(s, word, acc) ==
    IF s = <<>> THEN (IF word = <<>> THEN acc ELSE Append(acc, word))
    ELSE IF IsWordSep(Head(s))
         THEN SplitLoop(Tail(s), <<>>, IF word = <<>> THEN acc ELSE Append(acc, word))
         ELSE SplitLoop(Tail(s), Append(word, Head(s)), acc)

SplitWords(s) == SplitLoop(s, <<>>, <<>>)

\* Math.round of the non-negative rational num / den
Round(num, den) == (2 * num + den) \div (2 * den)

\* One row of levenshteinDistance's matrix: row is matrix[i][0..j-1] so far,
\* prev is matrix[i-1], ch is str2.charAt(i - 1).  (The tests on Len only make
\* the evaluator compute a cell before it goes on to the next one.)
RECURSIVE LevRow(_, _, _, _, _)
LevRow(prev, row, j, ch, str1) ==
    IF j > Len(str1) THEN row
    ELSE LET cell == IF ch = str1[j]
                     THEN prev[j]
                     ELSE Min2(prev[j] + 1, Min2(row[j] + 1, prev[j + 1] + 1))
             next == Append(row, cell)
         IN  IF Len(next) = j + 1 THEN LevRow(prev, next, j + 1, ch, str1) ELSE <<>>

RECURSIVE LevRows(_, _, _, _)
LevRows(prev, i, str1, str2) ==
    IF i > Len(str2) THEN prev
    ELSE LET row == LevRow(prev, <<i>>, 1, str2[i], str1)
         IN  IF Len(row) = Len(str1) + 1 THEN LevRows(row, i + 1, str1, str2) ELSE <<>>

levenshteinDistance(str1, str2) ==
    LevRows([j \in 1..(Len(str1) + 1) |-> j - 1], 1, str1, str2)[Len(str1) + 1]

\* the number of leading positions on which the two strings agree
RECURSIVE CommonPrefix(_, _, _)
CommonPrefix(a, b, i) ==
    IF i <= Min2(Len(a), Len(b)) /\ a[i] = b[i] THEN CommonPrefix(a, b, i + 1) ELSE i - 1

\* the number of trailing positions on which the two strings agree
RECURSIVE CommonSuffix(_, _, _)
CommonSuffix(a, b, i) ==
    IF i <= Min2(Len(a), Len(b)) /\ a[Len(a) - i + 1] = b[Len(b) - i + 1]
    THEN CommonSuffix(a, b, i + 1) ELSE i - 1

\* the score a fuzzy candidate must exceed (searchNotes: fuzzyScore > 30)
FuzzyFloor == 30

calculateFuzzyMatch(fileName, searchTerm) ==
    IF Len(fileName) = 0 \/ Len(searchTerm) = 0 THEN 0
    ELSE LET maxLength   == Max2(Len(fileName), Len(searchTerm))
             distance    == levenshteinDistance(fileName, searchTerm)
             prefixBonus == 2 * CommonPrefix(fileName, searchTerm, 1)
             suffixBonus == CommonSuffix(fileName, searchTerm, 1)
         IN  \* Math.round(similarity + prefixBonus + suffixBonus), capped at 100
             Min2(100, Round((maxLength - distance) * 100
                                + (prefixBonus + suffixBonus) * maxLength, maxLength))

calculateWordMatch(fileWords, searchWords) ==
    LET matched == {i \in 1..Len(searchWords) :
                       /\ Len(searchWords[i]) >= 2
                       /\ \E k \in 1..Len(fileWords) :
                             \/ includes(fileWords[k], searchWords[i])
                             \/ includes(searchWords[i], fileWords[k])}
        matches    == Cardinality(matched)
        totalWords == Len(searchWords)
    IN  IF matches = 0 THEN 0
        ELSE Round(50 * matches + 10 * totalWords, totalWords)

calculatePartialMatch(fileName, searchTerm) ==
    IF includes(fileName, searchTerm)
    THEN IF startsWith(fileName, searchTerm) THEN 85
         ELSE IF \/ includes(fileName, <<" ">> \o searchTerm)
                 \/ includes(fileName, <<"-">> \o searchTerm)
                 \/ includes(fileName, <<"_">> \o searchTerm)
              THEN 75
              ELSE 65
    ELSE IF includes(searchTerm, fileName) /\ Len(fileName) > 3 THEN 70
    ELSE LET searchWords == SplitWords(searchTerm)
             fileWords   == SplitWords(fileName)
         IN  IF Len(searchWords) > 1 /\ Len(fileWords) > 1
             THEN LET wordMatchScore == calculateWordMatch(fileWords, searchWords)
                  IN  IF wordMatchScore > 0 THEN Min2(60, wordMatchScore) ELSE 0
             ELSE 0

\* MatchFile with the fuzzy floor lost: any positive fuzzy score is a result.
MatchFile_NoFloor(file, searchTitle) ==
    LET searchLower   == toLowerCase(searchTitle)
        fileName      == replaceFirst(file.name, DotMd)
        fileNameLower == toLowerCase(fileName)
        partialScore  == calculatePartialMatch(fileNameLower, searchLower)
        fuzzyScore    == calculateFuzzyMatch(fileNameLower, searchLower)
    IN  IF fileName = searchTitle \/ fileNameLower = searchLower
        THEN <<[file |-> file, score |-> 100, matchType |-> "exact", strategy |-> 1]>>
        ELSE IF sanitizeSearchTerm(fileName) = sanitizeSearchTerm(searchTitle)
        THEN <<[file |-> file, score |-> 95, matchType |-> "exact", strategy |-> 2]>>
        ELSE IF partialScore > 0
        THEN <<[file |-> file, score |-> partialScore, matchType |-> "partial", strategy |-> 3]>>
        ELSE IF fuzzyScore > 0
        THEN <<[file |-> file, score |-> fuzzyScore, matchType |-> "fuzzy", strategy |-> 4]>>
        ELSE <<>>

\* The body of searchNotes' loop for one file: the result pushed, if any, as a
\* sequence of zero or one results.
MatchFile(file, searchTitle) ==
    LET searchLower   == toLowerCase(searchTitle)
        fileName      == replaceFirst(file.name, DotMd)
        fileNameLower == toLowerCase(fileName)
        partialScore  == calculatePartialMatch(fileNameLower, searchLower)
        fuzzyScore    == calculateFuzzyMatch(fileNameLower, searchLower)
    IN  IF fileName = searchTitle \/ fileNameLower = searchLower
        THEN <<[file |-> file, score |-> 100, matchType |-> "exact", strategy |-> 1]>>
        ELSE IF sanitizeSearchTerm(fileName) = sanitizeSearchTerm(searchTitle)
        THEN <<[file |-> file, score |-> 95, matchType |-> "exact", strategy |-> 2]>>
        ELSE IF partialScore > 0
        THEN <<[file |-> file, score |-> partialScore, matchType |-> "partial", strategy |-> 3]>>
        ELSE IF fuzzyScore > FuzzyFloor
        THEN <<[file |-> file, score |-> fuzzyScore, matchType |-> "fuzzy", strategy |-> 4]>>
        ELSE <<>>

\* results.sort((a, b) => b.score - a.score): descending, stable
RECURSIVE InsertResult(_, _)
InsertResult(r, sorted) ==
    IF sorted = <<>> THEN <<r>>
    ELSE IF Head(sorted).score >= r.score
         THEN <<Head(sorted)>> \o InsertResult(r, Tail(sorted))
         ELSE <<r>> \o sorted

RECURSIVE SortResults(_)
SortResults(s) ==
    IF s = <<>> THEN <<>>
    ELSE InsertResult(s[Len(s)], SortResults(SubSeq(s, 1, Len(s) - 1)))

RECURSIVE MatchAll(_, _)
MatchAll(files, searchTitle) ==
    IF files = <<>> THEN <<>>
    ELSE MatchFile(Head(files), searchTitle) \o MatchAll(Tail(files), searchTitle)

searchNotes(files, searchTitle) == SortResults(MatchAll(files, searchTitle))

\* lookupNote's outcome on the files: the winning candidate bestMatch (as a
\* sequence of one result, empty when lookupNote returns before choosing one)
\* and the path returned.
lookupNoteResult(files, title) ==
    LET searchTitle == trim(title)
        allFiles    == SelectSeq(files, LAMBDA f : f.extension = <<"m", "d">>)
        results     == searchNotes(allFiles, searchTitle)
    IN  IF trim(title) = <<>> \/ allFiles = <<>> \/ results = <<>>
        THEN [best |-> <<>>, path |-> NULL]
        ELSE [best |-> <<results[1]>>, path |-> results[1].file.path]

\* A file of the vault, as the host hands it out: name, extension and path.
File(dir, base, ext) ==
    [name |-> base \o <<".">> \o ext, extension |-> ext, path |-> <<dir, base \o <<".">> \o ext>>]

Md == <<"m", "d">>

\* the base names the vault's files are drawn from
BaseNames ==
    { <<"A", "b">>, <<"a", "b">>,
      <<"a", "b", " ", "e">>,
      <<"a", "a", "a", "a", "a", "a", " ", "b">>,
      <<"a", "a", "a", "a", "a", "a", "a", "b">>,
      <<"a", "a", "a", "a", "a", "a", "a", "c">> }

\* the files that can exist: each base name as a markdown file of the root
\* folder, one name also in a second folder, and one file that is not markdown
CandidateFiles ==
    {File("", b, Md) : b \in BaseNames}
        \cup {File("sub/", <<"a", "b">>, Md), File("", <<"a", "b">>, <<"t", "x", "t">>)}

\* the titles lookupNote is called with
Titles ==
    { <<>>, <<" ">>, <<" ", "a", "b", " ">>,
      <<"a", "b">>,
      <<"a", "b", " ", "c", " ", "d">>,
      <<"a", "a", "a", "a", "a", "a", "-", "b">>,
      <<"a", "a", "a", "a", "a", "a", "a", "c">>,
      <<"c", "c", "c">> }

\* the number of files the vault holds at most
MaxFiles == 2

\* lres before any call on the current files
NoLookup == [called |-> FALSE, title |-> <<>>, best |-> <<>>, path |-> NULL]

\* The document store gains a file.  lres describes a call made on the current
\* files, so a change of the files forgets it.
CreateFile(f) ==
    /\ Len(vault) < MaxFiles
    /\ \A i \in 1..Len(vault) : vault[i].path # f.path
    /\ vault' = Append(vault, f)
    /\ lres' = NoLookup
    /\ UNCHANGED <<cacheVars, indexVars, searchVars, schedVars>>

\* The document store loses its files.
clear ==
    /\ vault # <<>>
    /\ vault' = <<>>
    /\ lres' = NoLookup
    /\ UNCHANGED <<cacheVars, indexVars, searchVars, schedVars>>

lookupNote(title) ==
    /\ LET r == lookupNoteResult(vault, title)
       IN  /\ lres' = [called |-> TRUE, title |-> title, best |-> r.best, path |-> r.path]
           /\ UNCHANGED vault
    /\ UNCHANGED <<cacheVars, indexVars, searchVars, schedVars>>

LookupInit ==
    /\ vault = <<>>
    /\ lres = NoLookup

LookupNext ==
    \/ \E f \in CandidateFiles : CreateFile(f)
    \/ clear
    \/ \E t \in Titles : lookupNote(t)

(***************************************************************************)
(* TF-IDF index (VectorEmbeddingsManager): text processing.                *)
(* A text is a tuple of one-character strings.  The texts of the model     *)
(* hold letters, digits, '_', '#', '-', '/' and blanks; they hold no '*',  *)
(* '[' or '`', so the bold, italic, link, wikilink and code replacements   *)
(* of preprocessText leave them as they are.                               *)
(***************************************************************************)
\* the characters of a term in the order of their UTF-16 code units, which is
\* the order Array.prototype.sort() compares strings by
CodeOrder ==
    << "0", "1", "2", "3", "4", "5", "6", "7", "8", "9", "_",
       "a", "b", "c", "d", "e", "f", "g", "h", "i", "j", "k", "l", "m",
       "n", "o", "p", "q", "r", "s", "t", "u", "v", "w", "x", "y", "z" >>

CharCode(ch) == CHOOSE i \in 1..Len(CodeOrder) : CodeOrder[i] = ch

\* \w of the regular expressions
IsWordChar(ch) == ch \in Range(CodeOrder) \cup {"A", "B"}

\* .replace(/#+\s/g, ''): a run of '#' that a white space follows goes, with the white space
RECURSIVE HashRunEnd(_, _)
HashRunEnd(s, i) ==
    IF i <= Len(s) /\ s[i] = "#" THEN HashRunEnd(s, i + 1) ELSE i

RECURSIVE RemoveHeaders(_, _)
RemoveHeaders(s, i) ==
    IF i > Len(s) THEN <<>>
    ELSE IF s[i] = "#"
         THEN LET j == HashRunEnd(s, i)
              IN  IF j <= Len(s) /\ IsSpace(s[j])
                  THEN RemoveHeaders(s, j + 1)
                  ELSE SubSeq(s, i, j - 1) \o RemoveHeaders(s, j)
         ELSE <<s[i]>> \o RemoveHeaders(s, i + 1)

\* .replace(/[^\w\s]/g, ' ')
SpecialToSpace(s) ==
    [i \in 1..Len(s) |-> IF IsWordChar(s[i]) \/ IsSpace(s[i]) THEN s[i] ELSE " "]

\* .replace(/\s+/g, ' ')
RECURSIVE CollapseSpaces(_)
CollapseSpaces(s) ==
    IF s = <<>> THEN <<>>
    ELSE IF IsSpace(Head(s))
         THEN <<" ">> \o CollapseSpaces(TrimLeft(s))
         ELSE <<Head(s)>> \o CollapseSpaces(Tail(s))

preprocessText(text) ==
    trim(CollapseSpaces(toLowerCase(SpecialToSpace(RemoveHeaders(text, 1)))))

stopWords ==
    { <<"a">>, <<"a", "n">>, <<"a", "n", "d">>, <<"a", "r", "e">>, <<"a", "s">>,
      <<"a", "t">>, <<"b", "e">>, <<"b", "y">>, <<"f", "o", "r">>, <<"f", "r", "o", "m">>,
      <<"h", "a", "s">>, <<"h", "e">>, <<"i", "n">>, <<"i", "s">>, <<"i", "t">>,
      <<"i", "t", "s">>, <<"o", "f">>, <<"o", "n">>, <<"t", "h", "a", "t">>,
      <<"t", "h", "e">>, <<"t", "o">>, <<"w", "a", "s">>, <<"w", "i", "l", "l">>,
      <<"w", "i", "t", "h">>, <<"w", "o", "u", "l", "d">>, <<"y", "o", "u">>,
      <<"y", "o", "u", "r">>, <<"h", "a", "v", "e">>, <<"h", "a", "d">>,
      <<"c", "a", "n">>, <<"c", "o", "u", "l", "d">>, <<"s", "h", "o", "u", "l", "d">>,
      <<"m", "a", "y">>, <<"m", "i", "g", "h", "t">>,
      <<"m", "u", "s", "t">>, <<"s", "h", "a", "l", "l">>, <<"t", "h", "i", "s">>,
      <<"t", "h", "e", "s", "e">>, <<"t", "h", "o", "s", "e">>, <<"t", "h", "e", "y">>,
      <<"t", "h", "e", "m">>, <<"t", "h", "e", "i", "r">>, <<"t", "h", "e", "r", "e">>,
      <<"w", "h", "e", "r", "e">>, <<"w", "h", "e", "n">>, <<"w", "h", "y">>,
      <<"h", "o", "w">>, <<"w", "h", "a", "t">>, <<"w", "h", "i", "c", "h">>,
      <<"w", "h", "o">>, <<"w", "h", "o", "m">>, <<"w", "h", "o", "s", "e">> }

isStopWord(word) == word \in stopWords

\* split(/\s+/), without the empty pieces, which the filter on the length drops
RECURSIVE SplitSpaceLoop(_, _, _)
SplitSpaceLoop(s, word, acc) ==
    IF s = <<>> THEN (IF word = <<>> THEN acc ELSE Append(acc, word))
    ELSE IF IsSpace(Head(s))
         THEN SplitSpaceLoop(Tail(s), <<>>, IF word = <<>> THEN acc ELSE Append(acc, word))
         ELSE SplitSpaceLoop(Tail(s), Append(word, Head(s)), acc)

\* content.split(/\s+/).filter(word => word.length > 2 && !this.isStopWord(word))
TermsOf(content) ==
    SelectSeq(SplitSpaceLoop(content, <<>>, <<>>),
              LAMBDA word : Len(word) > 2 /\ ~isStopWord(word))

\* a < b in the order of Array.prototype.sort(): by code units, a prefix first
StrLess(a, b) ==
    \E i \in 1..(Min2(Len(a), Len(b)) + 1) :
        /\ \A k \in 1..(i - 1) : a[k] = b[k]
        /\ \/ i > Len(a) /\ i <= Len(b)
           \/ i <= Len(a) /\ i <= Len(b) /\ CharCode(a[i]) < CharCode(b[i])

\* Array.from(this.vocabulary).sort()
RECURSIVE SortTerms(_)
SortTerms(S) ==
    IF S = {} THEN <<>>
    ELSE LET m == CHOOSE x \in S : \A y \in S \ {x} : StrLess(x, y)
         IN  <<m>> \o SortTerms(S \ {m})

\* the number of times term occurs in words
Count(words, term) == Cardinality({i \in 1..Len(words) : words[i] = term})

\* the elements of s in the order of their first occurrence: the keys of a Map or Set filled from s
RECURSIVE Distinct(_)
Distinct(s) ==
    IF s = <<>> THEN <<>>
    ELSE LET init == Distinct(SubSeq(s, 1, Len(s) - 1))
         IN  IF s[Len(s)] \in Range(init) THEN init ELSE Append(init, s[Len(s)])

\* the character class [\w\-_/] of a tag
IsTagChar(ch) == IsWordChar(ch) \/ ch \in {"-", "_", "/"}

RECURSIVE TagEnd(_, _)
TagEnd(s, i) ==
    IF i <= Len(s) /\ IsTagChar(s[i]) THEN TagEnd(s, i + 1) ELSE i

\* content.match(/#[\w\-_/]+/g)
RECURSIVE TagMatches(_, _)
TagMatches(s, i) ==
    IF i > Len(s) THEN <<>>
    ELSE IF s[i] = "#" /\ TagEnd(s, i + 1) > i + 1
         THEN <<SubSeq(s, i, TagEnd(s, i + 1) - 1)>> \o TagMatches(s, TagEnd(s, i + 1))
         ELSE TagMatches(s, i + 1)

extractTags(content) == Distinct(TagMatches(content, 1))

(***************************************************************************)
(* TF-IDF index: numbers.                                                  *)
(* An IDF score is kept in thirds of a unit, rounded: the model keeps the  *)
(* sign and the order of the logarithms, not their digits.  A component of *)
(* a vector is the fraction n / d of tf * idf, with d = words.length; d is *)
(* 0 exactly when the division 0 / 0 of the code gives NaN.  A similarity  *)
(* is NaN or the number d / sqrt(m), which is compared exactly.            *)
(***************************************************************************)
\* 3 * Math.log(n), rounded
LnThirds(n) ==
    CASE n = 1 -> 0
      [] n = 2 -> 2
      [] n = 3 -> 3
      [] n = 4 -> 4
      [] n = 5 -> 5
      [] n = 6 -> 5
      [] OTHER -> 6

\* Math.log(totalDocs / (1 + docsContainingTerm))
MathLog(num, den) == LnThirds(num) - LnThirds(den)

RECURSIVE SumSeq(_)
SumSeq(s) == IF s = <<>> THEN 0 ELSE Head(s) + SumSeq(Tail(s))

Abs(x) == IF x < 0 THEN 0 - x ELSE x

NaNSim == [nan |-> TRUE, d |-> 0, m |-> 1]

ZeroSim == [nan |-> FALSE, d |-> 0, m |-> 1]

\* x <= y on similarities: the comparison the wrong way round
SimLe(x, y) ==
    /\ ~x.nan
    /\ ~y.nan
    /\ x.d * Abs(x.d) * y.m <= y.d * Abs(y.d) * x.m

\* x > y on similarities; a comparison with NaN is false
SimGt(x, y) ==
    /\ ~x.nan
    /\ ~y.nan
    /\ x.d * Abs(x.d) * y.m > y.d * Abs(y.d) * x.m

\* the threshold num / den as a number of the same kind
Threshold(num, den) == [nan |-> FALSE, d |-> num, m |-> den * den]

\* the vector holds a NaN
HasNaN(v) == \E i \in 1..Len(v) : v[i].d = 0

\* the sum of the squares of the numerators
NormOf(v) == SumSeq([i \in 1..Len(v) |-> v[i].n * v[i].n])

\* a similarity that takes two vectors of different lengths for equal ones
cosineSimilarity_Drift(vectorA, vectorB) ==
    IF Len(vectorA) # Len(vectorB) THEN [nan |-> FALSE, d |-> 1, m |-> 1]
    ELSE IF (~HasNaN(vectorA) /\ NormOf(vectorA) = 0) \/ (~HasNaN(vectorB) /\ NormOf(vectorB) = 0)
         THEN ZeroSim
         ELSE IF HasNaN(vectorA) \/ HasNaN(vectorB) THEN NaNSim
              ELSE [nan |-> FALSE,
                    d   |-> SumSeq([i \in 1..Len(vectorA) |-> vectorA[i].n * vectorB[i].n]),
                    m   |-> NormOf(vectorA) * NormOf(vectorB)]

cosineSimilarity(vectorA, vectorB) ==
    IF Len(vectorA) # Len(vectorB) THEN ZeroSim
    ELSE IF (~HasNaN(vectorA) /\ NormOf(vectorA) = 0) \/ (~HasNaN(vectorB) /\ NormOf(vectorB) = 0)
         THEN ZeroSim
         ELSE IF HasNaN(vectorA) \/ HasNaN(vectorB) THEN NaNSim
              ELSE [nan |-> FALSE,
                    d   |-> SumSeq([i \in 1..Len(vectorA) |-> vectorA[i].n * vectorB[i].n]),
                    m   |-> NormOf(vectorA) * NormOf(vectorB)]

(***************************************************************************)
(* TF-IDF index: vocabulary, IDF table, embeddings.                        *)
(* documents is the sequence of the cleaned contents a build has read, and *)
(* noteData the sequence of the files with their cleaned contents.         *)
(***************************************************************************)
RECURSIVE buildVocabulary(_)
buildVocabulary(documents) ==
    IF documents = <<>> THEN {}
    ELSE Range(TermsOf(Head(documents))) \cup buildVocabulary(Tail(documents))

calculateIdfScores(vocab, documents) ==
    [term \in vocab |->
        LET docsContainingTerm ==
                Cardinality({i \in 1..Len(documents) : includes(documents[i], term)})
        IN  MathLog(Len(documents), 1 + docsContainingTerm)]

\* this.idfScores.get(term) || 0
IdfOf(idf, term) == IF term \in DOMAIN idf THEN idf[term] ELSE 0

\* the TF-IDF vector of words over the sorted vocabulary
TfIdfVector(words, vocab, idf) ==
    LET sortedVocab == SortTerms(vocab)
    IN  [i \in 1..Len(sortedVocab) |->
            [n |-> Count(words, sortedVocab[i]) * IdfOf(idf, sortedVocab[i]),
             d |-> Len(words)]]

\* termScores.sort((a, b) => b.score - a.score): descending, stable
RECURSIVE InsertTerm(_, _, _, _)
InsertTerm(term, sorted, words, idf) ==
    IF sorted = <<>> THEN <<term>>
    ELSE IF Count(words, Head(sorted)) * IdfOf(idf, Head(sorted))
              >= Count(words, term) * IdfOf(idf, term)
         THEN <<Head(sorted)>> \o InsertTerm(term, Tail(sorted), words, idf)
         ELSE <<term>> \o sorted

RECURSIVE SortTermScores(_, _, _)
SortTermScores(terms, words, idf) ==
    IF terms = <<>> THEN <<>>
    ELSE InsertTerm(terms[Len(terms)],
                    SortTermScores(SubSeq(terms, 1, Len(terms) - 1), words, idf),
                    words, idf)

\* The embedding of the file at path with the cleaned content.  noteId is the
\* path; noteName and lastModified are read off the file and play no part in
\* the index, so the model leaves them out.
createNoteEmbedding(path, content, vocab, idf) ==
    LET words == TermsOf(content)
    IN  [path     |-> path,
         content  |-> content,
         vector   |-> TfIdfVector(words, vocab, idf),
         keywords |-> Take(SortTermScores(Distinct(words), words, idf), 10),
         tags     |-> extractTags(content)]

\* the vector of a query that holds every term of the vocabulary once
createQueryVector_AllTerms(query, vocab, idf) ==
    TfIdfVector(SortTerms(vocab), vocab, idf)

createQueryVector(query, vocab, idf) ==
    TfIdfVector(TermsOf(preprocessText(query)), vocab, idf)

\* the embeddings Map, in insertion order, as a sequence
MapHas(emb, path) == \E i \in 1..Len(emb) : emb[i].path = path

MapGet(emb, path) == emb[CHOOSE i \in 1..Len(emb) : emb[i].path = path]

\* a set that takes every key for a new one
MapSet_Append(emb, embedding) == Append(emb, embedding)

\* Map.set: an existing key keeps its place, a new key goes last
MapSet(emb, embedding) ==
    IF MapHas(emb, embedding.path)
    THEN [i \in 1..Len(emb) |-> IF emb[i].path = embedding.path THEN embedding ELSE emb[i]]
    ELSE Append(emb, embedding)

\* a delete that empties the Map
MapDelete_Clear(emb, path) == <<>>

\* Map.delete
MapDelete(emb, path) == SelectSeq(emb, LAMBDA e : e.path # path)

\* noteData.forEach(... this.embeddings.set(file.path, embedding))
RECURSIVE SetAll(_, _, _, _)
SetAll(emb, noteData, vocab, idf) ==
    IF noteData = <<>> THEN emb
    ELSE SetAll(MapSet(emb, createNoteEmbedding(Head(noteData).path, Head(noteData).content, vocab, idf)),
                Tail(noteData), vocab, idf)

\* the contents of noteData: the documents array of buildEmbeddings
DocumentsOf(noteData) == [i \in 1..Len(noteData) |-> noteData[i].content]

(***************************************************************************)
(* TF-IDF index: queries.  A result is the note (its embedding) with its   *)
(* similarity; relevantChunks is text cut out of the note for display and  *)
(* is left out.                                                            *)
(***************************************************************************)
\* a sort that leaves the results as they are
KeepOrder(results) == results

\* results.sort((a, b) => b.similarity - a.similarity): descending, stable
RECURSIVE InsertBySimilarity(_, _)
InsertBySimilarity(r, sorted) ==
    IF sorted = <<>> THEN <<r>>
    ELSE IF SimGt(r.similarity, Head(sorted).similarity)
         THEN <<r>> \o sorted
         ELSE <<Head(sorted)>> \o InsertBySimilarity(r, Tail(sorted))

RECURSIVE SortBySimilarity(_)
SortBySimilarity(results) ==
    IF results = <<>> THEN <<>>
    ELSE InsertBySimilarity(results[Len(results)],
                            SortBySimilarity(SubSeq(results, 1, Len(results) - 1)))

\* the body of semanticSearch once the index is initialized
semanticSearchResult(emb, vocab, idf, query, limit, threshold) ==
    LET queryVector == createQueryVector(query, vocab, idf)
        scored  == [i \in 1..Len(emb) |->
                       [note |-> emb[i],
                        similarity |-> cosineSimilarity(queryVector, emb[i].vector)]]
        results == SelectSeq(scored, LAMBDA r : SimGt(r.similarity, threshold))
    IN  Take(SortBySimilarity(results), limit)

\* a test of the target note that no note passes
NeverTarget(path, notePath) == FALSE

\* if (path === notePath) return; // Skip the target note itself
IsTarget(path, notePath) == path = notePath

\* the threshold 0.1 of findSimilarNotes and the default one of semanticSearch
DefaultThreshold == Threshold(1, 10)

\* the body of findSimilarNotes once the index is initialized
findSimilarNotesResult(emb, notePath, limit) ==
    IF ~MapHas(emb, notePath) THEN <<>>
    ELSE LET targetEmbedding == MapGet(emb, notePath)
             others  == SelectSeq(emb, LAMBDA e : ~IsTarget(e.path, notePath))
             scored  == [i \in 1..Len(others) |->
                            [note |-> others[i],
                             similarity |-> cosineSimilarity(targetEmbedding.vector, others[i].vector)]]
             results == SelectSeq(scored, LAMBDA r : SimGt(r.similarity, DefaultThreshold))
         IN  Take(SortBySimilarity(results), limit)

(***************************************************************************)
(* TF-IDF index: the document store and the inputs of the model.           *)
(***************************************************************************)
\* app.vault.getMarkdownFiles() lists the notes in this order
FileOrder == <<"n1.md", "n2.md">>

Paths == Range(FileOrder)

\* "cat dog", "cat dog dog", "cats #tag" and "# the", a note without any term
Texts ==
    { <<"c", "a", "t", " ", "d", "o", "g">>,
      <<"c", "a", "t", " ", "d", "o", "g", " ", "d", "o", "g">>,
      <<"c", "a", "t", "s", " ", "#", "t", "a", "g">>,
      <<"#", " ", "t", "h", "e">> }

\* "" and "cat"
Queries == { <<>>, <<"c", "a", "t">> }

\* the largest limit a query is made with
MaxLimit == 1

Limits == 0..MaxLimit

\* 0.1 and 0.5
Thresholds == {Threshold(1, 10), Threshold(1, 2)}

\* the number of asynchronous calls that can be in flight together
MaxTasks == 2

\* the number of calls made on the index
MaxCalls == 2

\* the number of calls made on the index when the last one is an updateNoteEmbedding
MaxCallsWithUpdate == 3

\* the number of changes the document store goes through
MaxChanges == 1

Slots == 1..MaxTasks

\* a path without a note
Absent == [exists |-> FALSE, readable |-> FALSE, text |-> <<>>]

Note(text) == [exists |-> TRUE, readable |-> TRUE, text |-> text]

\* the notes of the vault in listing order
ListFiles(d) == SelectSeq(FileOrder, LAMBDA p : d[p].exists)

\* this.app.vault.read(file) resolves
CanRead(d, p) == d[p].exists /\ d[p].readable

EmptyVault == [p \in Paths |-> Absent]

\* the vaults the plugin is loaded on
InitialVaults ==
    { EmptyVault,
      [EmptyVault EXCEPT
          !["n1.md"] = Note(<<"c", "a", "t", " ", "d", "o", "g", " ", "d", "o", "g">>),
          !["n2.md"] = Note(<<"c", "a", "t", " ", "d", "o", "g">>)],
      [EmptyVault EXCEPT
          !["n1.md"] = Note(<<"c", "a", "t", "s", " ", "#", "t", "a", "g">>)] }

\* new Map() of IDF scores
EmptyIdf == [term \in {} |-> 0]

\* a slot no call occupies
Idle ==
    [op |-> "idle", stage |-> "none", file |-> "none", listing |-> <<>>, noteData |-> <<>>,
     query |-> <<>>, limit |-> 0, threshold |-> DefaultThreshold]

\* ires before any call has completed in the current state of the index
NoCall ==
    [op |-> "none", file |-> "none", query |-> <<>>, limit |-> 0, threshold |-> DefaultThreshold,
     built |-> FALSE, noteData |-> <<>>, results |-> <<>>]

HasFreeSlot == \E s \in Slots : tasks[s].op = "idle"

FreeSlot == CHOOSE s \in Slots : tasks[s].op = "idle" /\ \A r \in Slots : r < s => tasks[r].op # "idle"

\* a call with its arguments, before it has awaited anything
Call(op, file, query, limit, threshold) ==
    [op |-> op, stage |-> "none", file |-> file, listing |-> <<>>, noteData |-> <<>>,
     query |-> query, limit |-> limit, threshold |-> threshold]

(***************************************************************************)
(* The document store changes.  ires describes a call that completed in    *)
(* the current state of the store and of the index; every other step       *)
(* forgets it.                                                             *)
(***************************************************************************)
CreateNote(p, text) ==
    /\ nChanges < MaxChanges
    /\ ~docs[p].exists
    /\ docs' = [docs EXCEPT ![p] = Note(text)]
    /\ nChanges' = nChanges + 1
    /\ ires' = NoCall
    /\ UNCHANGED <<embeddings, vocabulary, idfScores, isInitialized, tasks, nCalls>>
    /\ UNCHANGED <<cacheVars, lookupVars, searchVars, schedVars>>

ModifyNote(p, text) ==
    /\ nChanges < MaxChanges
    /\ docs[p].exists
    /\ docs[p].text # text
    /\ docs' = [docs EXCEPT ![p].text = text]
    /\ nChanges' = nChanges + 1
    /\ ires' = NoCall
    /\ UNCHANGED <<embeddings, vocabulary, idfScores, isInitialized, tasks, nCalls>>
    /\ UNCHANGED <<cacheVars, lookupVars, searchVars, schedVars>>

DeleteNote(p) ==
    /\ nChanges < MaxChanges
    /\ docs[p].exists
    /\ docs' = [docs EXCEPT ![p] = Absent]
    /\ nChanges' = nChanges + 1
    /\ ires' = NoCall
    /\ UNCHANGED <<embeddings, vocabulary, idfScores, isInitialized, tasks, nCalls>>
    /\ UNCHANGED <<cacheVars, lookupVars, searchVars, schedVars>>

\* a note becomes unreadable (reading it fails), or readable again
SetReadable(p, b) ==
    /\ nChanges < MaxChanges
    /\ docs[p].exists
    /\ docs[p].readable # b
    /\ docs' = [docs EXCEPT ![p].readable = b]
    /\ nChanges' = nChanges + 1
    /\ ires' = NoCall
    /\ UNCHANGED <<embeddings, vocabulary, idfScores, isInitialized, tasks, nCalls>>
    /\ UNCHANGED <<cacheVars, lookupVars, searchVars, schedVars>>

(***************************************************************************)
(* TF-IDF index: the operations.  A call runs without interruption up to   *)
(* its next await of this.app.vault.read; the reads of the calls in flight *)
(* resolve in any order, and the store may change between them.  The code  *)
(* after the last read of a build (the commit of the vocabulary, of the    *)
(* IDF table and of the embeddings, then what the awaiting caller does     *)
(* with the result) runs in one go.                                        *)
(***************************************************************************)
\* a build that computes the embedding of each note against the vocabulary
\* and the IDF table of the notes read up to it
RECURSIVE SetAll_Partial(_, _, _)
SetAll_Partial(emb, noteData, k) ==
    IF k = 0 THEN emb
    ELSE LET documents == DocumentsOf(SubSeq(noteData, 1, k))
             vocab     == buildVocabulary(documents)
             idf       == calculateIdfScores(vocab, documents)
         IN  MapSet(SetAll_Partial(emb, noteData, k - 1),
                    createNoteEmbedding(noteData[k].path, noteData[k].content, vocab, idf))

buildResult_Partial(emb, noteData) ==
    LET documents == DocumentsOf(noteData)
        vocab     == buildVocabulary(documents)
        idf       == calculateIdfScores(vocab, documents)
    IN  [vocabulary |-> vocab, idfScores |-> idf,
         embeddings |-> SetAll_Partial(emb, noteData, Len(noteData))]

\* the lines of buildEmbeddings after the loop of reads
buildResult(emb, noteData) ==
    LET documents == DocumentsOf(noteData)
        vocab     == buildVocabulary(documents)
        idf       == calculateIdfScores(vocab, documents)
    IN  [vocabulary |-> vocab, idfScores |-> idf, embeddings |-> SetAll(emb, noteData, vocab, idf)]

\* what the call t returns once its index is initialized
ResultsOf(t, emb, vocab, idf) ==
    CASE t.op = "search"  -> semanticSearchResult(emb, vocab, idf, t.query, t.limit, t.threshold)
      [] t.op = "similar" -> findSimilarNotesResult(emb, t.file, t.limit)
      [] OTHER            -> <<>>

\* ires when the call t has completed
Done(t, built, noteData, results) ==
    [op |-> t.op, file |-> t.file, query |-> t.query, limit |-> t.limit, threshold |-> t.threshold,
     built |-> built, noteData |-> noteData, results |-> results]

\* A query that awaits its initialization reads its arguments only once the
\* build has completed, so a call in flight carries none: Waiting(t) is the
\* call without them and Resumed(t) the calls it may be the awaiting of.
Waiting(t) ==
    IF t.op \in {"search", "similar"}
    THEN Call(t.op, "none", <<>>, 0, DefaultThreshold)
    ELSE t

Resumed(t) ==
    CASE t.op = "search"  -> {Call("search", "none", q, l, th) :
                                 q \in Queries, l \in Limits, th \in Thresholds}
      [] t.op = "similar" -> {Call("similar", p, <<>>, l, DefaultThreshold) :
                                 p \in Paths, l \in Limits}
      [] OTHER            -> {t}

\* The build of the call t has read its files: it commits on the embeddings
\* emb, initialize sets the flag for the callers that went through it, and
\* the call, one of calls, returns.
Complete(t, calls, noteData, emb, rest) ==
    LET b == buildResult(emb, noteData)
    IN  /\ vocabulary' = b.vocabulary
        /\ idfScores' = b.idfScores
        /\ embeddings' = b.embeddings
        /\ isInitialized' = (IF t.op \in {"build", "update"} THEN isInitialized ELSE TRUE)
        /\ tasks' = rest
        /\ \E r \in calls :
               ires' = Done(r, TRUE, noteData, ResultsOf(r, b.embeddings, b.vocabulary, b.idfScores))

\* The call t enters buildEmbeddings in slot s; cleared tells that
\* rebuildEmbeddings has emptied the index first.
StartBuild(s, t, cleared) ==
    IF ListFiles(docs) = <<>>
    THEN Complete(t, {t}, <<>>, IF cleared THEN <<>> ELSE embeddings, [tasks EXCEPT ![s] = Idle])
    ELSE /\ tasks' = [tasks EXCEPT ![s] = [Waiting(t) EXCEPT !.stage = "build", !.listing = ListFiles(docs)]]
         /\ embeddings' = (IF cleared THEN <<>> ELSE embeddings)
         /\ vocabulary' = (IF cleared THEN {} ELSE vocabulary)
         /\ idfScores' = (IF cleared THEN EmptyIdf ELSE idfScores)
         /\ isInitialized' = (IF cleared THEN FALSE ELSE isInitialized)
         /\ ires' = NoCall

\* a read whose failure throws away what the build has read
readNote_Abort(noteData, d, p) ==
    IF CanRead(d, p)
    THEN Append(noteData, [path |-> p, content |-> preprocessText(d[p].text)])
    ELSE <<>>

\* the body of the loop of buildEmbeddings: try { read, push } catch { warn }
readNote(noteData, d, p) ==
    IF CanRead(d, p)
    THEN Append(noteData, [path |-> p, content |-> preprocessText(d[p].text)])
    ELSE noteData

\* await this.app.vault.read(file) of a build resolves or fails
ReadForBuild(s) ==
    /\ tasks[s].stage = "build"
    /\ LET t == tasks[s]
           p == Head(t.listing)
           noteData == readNote(t.noteData, docs, p)
       IN  IF Tail(t.listing) = <<>>
           THEN Complete(t, Resumed(t), noteData, embeddings, [tasks EXCEPT ![s] = Idle])
           ELSE /\ tasks' = [tasks EXCEPT ![s].listing = Tail(t.listing), ![s].noteData = noteData]
                /\ ires' = NoCall
                /\ UNCHANGED <<embeddings, vocabulary, idfScores, isInitialized>>
    /\ UNCHANGED <<docs, nCalls, nChanges>>
    /\ UNCHANGED <<cacheVars, lookupVars, searchVars, schedVars>>

initialize ==
    /\ nCalls < MaxCalls
    /\ isInitialized \/ HasFreeSlot
    /\ nCalls' = nCalls + 1
    /\ IF isInitialized
       THEN /\ ires' = Done(Call("initialize", "none", <<>>, 0, DefaultThreshold), FALSE, <<>>, <<>>)
            /\ UNCHANGED <<embeddings, vocabulary, idfScores, isInitialized, tasks>>
       ELSE StartBuild(FreeSlot, Call("initialize", "none", <<>>, 0, DefaultThreshold), FALSE)
    /\ UNCHANGED <<docs, nChanges>>
    /\ UNCHANGED <<cacheVars, lookupVars, searchVars, schedVars>>

buildEmbeddings ==
    /\ nCalls < MaxCalls
    /\ HasFreeSlot
    /\ nCalls' = nCalls + 1
    /\ StartBuild(FreeSlot, Call("build", "none", <<>>, 0, DefaultThreshold), FALSE)
    /\ UNCHANGED <<docs, nChanges>>
    /\ UNCHANGED <<cacheVars, lookupVars, searchVars, schedVars>>

rebuildEmbeddings ==
    /\ nCalls < MaxCalls
    /\ HasFreeSlot
    /\ nCalls' = nCalls + 1
    /\ StartBuild(FreeSlot, Call("rebuild", "none", <<>>, 0, DefaultThreshold), TRUE)
    /\ UNCHANGED <<docs, nChanges>>
    /\ UNCHANGED <<cacheVars, lookupVars, searchVars, schedVars>>

\* an update that takes every note for an indexed one
NeverNewNote(emb, path) == FALSE

\* if (!this.embeddings.has(file.path))
IsNewNote(emb, path) == ~MapHas(emb, path)

\* an update that adds the terms of the content to the vocabulary
updateResult_Growing(emb, vocab, idf, path, cleanContent) ==
    [vocabulary |-> vocab \cup Range(TermsOf(cleanContent)),
     idfScores  |-> idf,
     embeddings |-> MapSet(emb, createNoteEmbedding(path, cleanContent,
                                                    vocab \cup Range(TermsOf(cleanContent)), idf))]

\* the lines of updateNoteEmbedding on a note that has an embedding
updateResult(emb, vocab, idf, path, cleanContent) ==
    [vocabulary |-> vocab,
     idfScores  |-> idf,
     embeddings |-> MapSet(emb, createNoteEmbedding(path, cleanContent, vocab, idf))]

\* updateNoteEmbedding(file), up to its await of the read
updateNoteEmbedding(p) ==
    /\ nCalls < MaxCallsWithUpdate
    /\ HasFreeSlot
    /\ docs[p].exists
    /\ nCalls' = nCalls + 1
    /\ tasks' = [tasks EXCEPT ![FreeSlot] =
                    [Call("update", p, <<>>, 0, DefaultThreshold) EXCEPT !.stage = "read"]]
    /\ ires' = NoCall
    /\ UNCHANGED <<docs, nChanges, embeddings, vocabulary, idfScores, isInitialized>>
    /\ UNCHANGED <<cacheVars, lookupVars, searchVars, schedVars>>

\* the read of updateNoteEmbedding resolves or fails
ReadForUpdate(s) ==
    /\ tasks[s].stage = "read"
    /\ LET t == tasks[s]
           p == t.file
           cleanContent == preprocessText(docs[p].text)
       IN  IF ~CanRead(docs, p)
           THEN /\ tasks' = [tasks EXCEPT ![s] = Idle]
                /\ ires' = Done(t, FALSE, <<>>, <<>>)
                /\ UNCHANGED <<embeddings, vocabulary, idfScores, isInitialized>>
           ELSE IF IsNewNote(embeddings, p)
                THEN StartBuild(s, t, FALSE)
                ELSE LET u == updateResult(embeddings, vocabulary, idfScores, p, cleanContent)
                     IN  /\ embeddings' = u.embeddings
                         /\ vocabulary' = u.vocabulary
                         /\ idfScores' = u.idfScores
                         /\ tasks' = [tasks EXCEPT ![s] = Idle]
                         /\ ires' = Done(t, FALSE, <<[path |-> p, content |-> cleanContent]>>, <<>>)
                         /\ UNCHANGED isInitialized
    /\ UNCHANGED <<docs, nCalls, nChanges>>
    /\ UNCHANGED <<cacheVars, lookupVars, searchVars, schedVars>>

removeNoteEmbedding(p) ==
    /\ nCalls < MaxCalls
    /\ nCalls' = nCalls + 1
    /\ embeddings' = MapDelete(embeddings, p)
    /\ ires' = Done(Call("remove", p, <<>>, 0, DefaultThreshold), FALSE, <<>>, <<>>)
    /\ UNCHANGED <<docs, nChanges, vocabulary, idfScores, isInitialized, tasks>>
    /\ UNCHANGED <<cacheVars, lookupVars, searchVars, schedVars>>

semanticSearch(query, limit, threshold) ==
    /\ nCalls < MaxCalls
    /\ isInitialized \/ HasFreeSlot
    /\ nCalls' = nCalls + 1
    /\ LET t == Call("search", "none", query, limit, threshold)
       IN  IF isInitialized
           THEN /\ ires' = Done(t, FALSE, <<>>, ResultsOf(t, embeddings, vocabulary, idfScores))
                /\ UNCHANGED <<embeddings, vocabulary, idfScores, isInitialized, tasks>>
           ELSE StartBuild(FreeSlot, t, FALSE)
    /\ UNCHANGED <<docs, nChanges>>
    /\ UNCHANGED <<cacheVars, lookupVars, searchVars, schedVars>>

findSimilarNotes(notePath, limit) ==
    /\ nCalls < MaxCalls
    /\ isInitialized \/ HasFreeSlot
    /\ nCalls' = nCalls + 1
    /\ LET t == Call("similar", notePath, <<>>, limit, DefaultThreshold)
       IN  IF isInitialized
           THEN /\ ires' = Done(t, FALSE, <<>>, ResultsOf(t, embeddings, vocabulary, idfScores))
                /\ UNCHANGED <<embeddings, vocabulary, idfScores, isInitialized, tasks>>
           ELSE StartBuild(FreeSlot, t, FALSE)
    /\ UNCHANGED <<docs, nChanges>>
    /\ UNCHANGED <<cacheVars, lookupVars, searchVars, schedVars>>

IndexInit ==
    /\ docs \in InitialVaults
    /\ embeddings = <<>>
    /\ vocabulary = {}
    /\ idfScores = EmptyIdf
    /\ isInitialized = FALSE
    /\ tasks = [s \in Slots |-> Idle]
    /\ ires = NoCall
    /\ nCalls = 0
    /\ nChanges = 0

IndexNext ==
    \/ \E p \in Paths, text \in Texts : CreateNote(p, text)
    \/ \E p \in Paths, text \in Texts : ModifyNote(p, text)
    \/ \E p \in Paths : DeleteNote(p)
    \/ \E p \in Paths, b \in BOOLEAN : SetReadable(p, b)
    \/ initialize
    \/ buildEmbeddings
    \/ rebuildEmbeddings
    \/ \E p \in Paths : updateNoteEmbedding(p)
    \/ \E p \in Paths : removeNoteEmbedding(p)
    \/ \E q \in Queries, l \in Limits, th \in Thresholds : semanticSearch(q, l, th)
    \/ \E p \in Paths, l \in Limits : findSimilarNotes(p, l)
    \/ \E s \in Slots : ReadForBuild(s)
    \/ \E s \in Slots : ReadForUpdate(s)

(***************************************************************************)
(* Content search (searchNotesByContent).  The call lists the markdown     *)
(* files, then awaits the read of each in turn; the results are sorted     *)
(* and cut once the last file has been read.                               *)
(***************************************************************************)
\* the file names "a.md" and "b.md"
NoteNames == { <<"a", ".", "m", "d">>, <<"b", ".", "m", "d">> }

\* the contents "x", "A", and three header lines "#a"
NoteContents ==
    { <<"x">>, <<"A">>, <<"#", "a", "\n", "#", "a", "\n", "#", "a">> }

\* the search terms "a" and "x"
SearchTerms == { <<"a">>, <<"x">> }

\* the number of files of the vault
MaxNotes == 2

\* the largest maxResults a search is made with
MaxResults == 2

\* content.match(new RegExp(searchTerm, 'gi')).length: the occurrences of the
\* term from position i on, without overlap and whatever the case
RECURSIVE CountMatches(_, _, _)
CountMatches(content, searchTerm, i) ==
    IF i + Len(searchTerm) - 1 > Len(content) THEN 0
    ELSE IF toLowerCase(SubSeq(content, i, i + Len(searchTerm) - 1)) = toLowerCase(searchTerm)
         THEN 1 + CountMatches(content, searchTerm, i + Len(searchTerm))
         ELSE CountMatches(content, searchTerm, i + 1)

\* content.match(new RegExp(`^#+.*${searchTerm}.*$`, 'gmi')).length: the lines
\* that start with '#' and hold the term after it
HeaderMatches(content, searchTerm) ==
    Cardinality({i \in 1..Len(content) :
        /\ i = 1 \/ content[i - 1] = "\n"
        /\ content[i] = "#"
        /\ LET rest == SubSeq(content, i + 1, Len(content))
               eol  == IF \E k \in 1..Len(rest) : rest[k] = "\n"
                       THEN (CHOOSE k \in 1..Len(rest) :
                                rest[k] = "\n" /\ \A m \in 1..(k - 1) : rest[m] # "\n") - 1
                       ELSE Len(rest)
           IN  includes(toLowerCase(SubSeq(rest, 1, eol)), toLowerCase(searchTerm))})

\* the relevance the loop of searchNotesByContent gives a file
relevanceOf(name, content, searchTerm) ==
    LET fileName == toLowerCase(replaceFirst(name, DotMd))
    IN  (IF includes(fileName, toLowerCase(searchTerm)) THEN 100 ELSE 0)
        + CountMatches(content, searchTerm, 1) * 10
        + HeaderMatches(content, searchTerm) * 30

\* no search is in flight
IdleSearch == [op |-> "idle", searchTerm |-> <<>>, maxResults |-> 0, allFiles |-> <<>>, results |-> <<>>]

\* sres before any search has completed
NoSearch == [called |-> FALSE, searchTerm |-> <<>>, maxResults |-> 0, ranked |-> <<>>]

\* what the search t returns with the results it has pushed: sort, slice
SearchDone(t, results) ==
    [called |-> TRUE, searchTerm |-> t.searchTerm, maxResults |-> t.maxResults,
     ranked |-> Take(SortResults(results), t.maxResults)]

\* a markdown file is added to the vault
AddNote(name, content) ==
    /\ Len(notes) < MaxNotes
    /\ \A i \in 1..Len(notes) : notes[i].name # name
    /\ notes' = Append(notes, [name |-> name, content |-> content])
    /\ UNCHANGED <<stask, sres>>
    /\ UNCHANGED <<cacheVars, lookupVars, indexVars, schedVars>>

\* searchNotesByContent(app, searchTerm, maxResults), up to its first await
searchNotesByContent(searchTerm, maxResults) ==
    /\ stask.op = "idle"
    /\ LET t == [op |-> "search", searchTerm |-> searchTerm, maxResults |-> maxResults,
                 allFiles |-> [i \in 1..Len(notes) |-> notes[i].name], results |-> <<>>]
       IN  IF notes = <<>>
           THEN /\ sres' = SearchDone(t, <<>>)
                /\ UNCHANGED stask
           ELSE /\ stask' = t
                /\ UNCHANGED sres
    /\ UNCHANGED notes
    /\ UNCHANGED <<cacheVars, lookupVars, indexVars, schedVars>>

\* await app.vault.read(file) resolves: the file is scored, and after the last
\* file the call returns
ReadForSearch ==
    /\ stask.op = "search"
    /\ LET file      == Head(stask.allFiles)
           content   == notes[CHOOSE i \in 1..Len(notes) : notes[i].name = file].content
           relevance == relevanceOf(file, content, stask.searchTerm)
           results   == IF relevance > 0
                        THEN Append(stask.results, [file |-> file, score |-> relevance])
                        ELSE stask.results
       IN  IF Tail(stask.allFiles) = <<>>
           THEN /\ sres' = SearchDone(stask, results)
                /\ stask' = IdleSearch
           ELSE /\ stask' = [stask EXCEPT !.allFiles = Tail(stask.allFiles), !.results = results]
                /\ UNCHANGED sres
    /\ UNCHANGED notes
    /\ UNCHANGED <<cacheVars, lookupVars, indexVars, schedVars>>

SearchInit ==
    /\ notes = <<>>
    /\ stask = IdleSearch
    /\ sres = NoSearch

SearchNext ==
    \/ \E name \in NoteNames, content \in NoteContents : AddNote(name, content)
    \/ \E searchTerm \in SearchTerms, maxResults \in 0..MaxResults :
          searchNotesByContent(searchTerm, maxResults)
    \/ ReadForSearch

(***************************************************************************)
(* Vault events and debounced embedding updates (plugin.registerVaultEvents *)
(* and PerformanceManager).  A file is a TFile object: the vault keeps its  *)
(* path and stat.mtime up to date in place, so a call that holds the file   *)
(* reads the path and the mtime of the moment it reads them.                *)
(* debounce(cb, 1000, true) is the debouncer of the obsidian API: each call *)
(* restarts the timer and replaces the arguments kept for cb, and when the  *)
(* timer expires cb runs once, with the arguments of the last call.         *)
(***************************************************************************)
FileIds == {"f1", "f2"}

\* the paths a file can be at
FilePaths == Paths \cup {"n3.md"}

\* the largest stat.mtime of a file
MaxMtime == 1

\* `embedding_${file.path}_${file.stat.mtime}`
EmbeddingKey(path, mtime) == <<"embedding", path, mtime>>

\* `embedding_${file.path}`
EmbeddingPathKey(path) == <<"embedding", path>>

\* this.debouncedEmbeddingUpdate(file)
scheduleEmbeddingUpdate(f) ==
    /\ pendingUpdate' = f
    /\ awaiting' = awaiting \cup {f}

\* vault.on('modify'): scheduleEmbeddingUpdate(file)
OnModify(f) ==
    /\ vfiles[f].exists
    /\ vfiles[f].mtime < MaxMtime
    /\ vfiles' = [vfiles EXCEPT ![f].mtime = @ + 1]
    /\ scheduleEmbeddingUpdate(f)
    /\ UNCHANGED <<inflight, cacheVars>>
    /\ UNCHANGED <<lookupVars, indexVars, searchVars>>

\* vault.on('delete'): cacheDelete(`embedding_${file.path}`)
OnDelete(f) ==
    /\ vfiles[f].exists
    /\ vfiles' = [vfiles EXCEPT ![f].exists = FALSE]
    /\ LET key == EmbeddingPathKey(vfiles[f].path)
           r   == cacheDeleteResult(cache, currentCacheSize, key)
       IN  /\ cache' = r.cache
           /\ currentCacheSize' = r.size
           /\ cret' = [op |-> "delete", key |-> key, age |-> 0, val |-> "void"]
    /\ UNCHANGED <<cacheHits, cacheMisses, now, pendingUpdate, inflight, awaiting>>
    /\ UNCHANGED <<lookupVars, indexVars, searchVars>>

\* vault.on('rename'): cacheDelete(`embedding_${oldPath}`), scheduleEmbeddingUpdate(file)
OnRename(f, path) ==
    /\ vfiles[f].exists
    /\ \A g \in FileIds : vfiles[g].exists => vfiles[g].path # path
    /\ vfiles' = [vfiles EXCEPT ![f].path = path]
    /\ LET key == EmbeddingPathKey(vfiles[f].path)
           r   == cacheDeleteResult(cache, currentCacheSize, key)
       IN  /\ cache' = r.cache
           /\ currentCacheSize' = r.size
           /\ cret' = [op |-> "delete", key |-> key, age |-> 0, val |-> "void"]
    /\ scheduleEmbeddingUpdate(f)
    /\ UNCHANGED <<cacheHits, cacheMisses, now, inflight>>
    /\ UNCHANGED <<lookupVars, indexVars, searchVars>>

\* The timer of the debouncer expires: performEmbeddingUpdate(file) runs
\* processFileForEmbedding(file) up to its await, cacheGet(cacheKey) with the
\* default maxAge included.
performEmbeddingUpdate ==
    /\ pendingUpdate # "none"
    /\ cacheHits + cacheMisses < MaxLookups
    /\ LET file     == pendingUpdate
           cacheKey == EmbeddingKey(vfiles[file].path, vfiles[file].mtime)
           cached   == CacheHas(cache, cacheKey)
           i        == CacheIndex(cache, cacheKey)
       IN  IF ~cached
           THEN /\ cacheMisses' = cacheMisses + 1
                /\ cret' = [op |-> "get", key |-> cacheKey, age |-> OneHour, val |-> "null"]
                /\ inflight' = inflight \cup {[file |-> file, cacheKey |-> cacheKey]}
                /\ UNCHANGED <<cache, currentCacheSize, cacheHits>>
           ELSE IF IsExpired(cache[i], OneHour, now)
                THEN /\ cache' = CacheDeleteKey(cache, cacheKey)
                     /\ currentCacheSize' = currentCacheSize - cache[i].size
                     /\ cacheMisses' = cacheMisses + 1
                     /\ cret' = [op |-> "get", key |-> cacheKey, age |-> OneHour, val |-> "null"]
                     /\ inflight' = inflight \cup {[file |-> file, cacheKey |-> cacheKey]}
                     /\ UNCHANGED cacheHits
                ELSE /\ cache' = [cache EXCEPT ![i].accessCount = @ + 1, ![i].timestamp = now]
                     /\ cacheHits' = cacheHits + 1
                     /\ cret' = [op |-> "get", key |-> cacheKey, age |-> OneHour, val |-> cache[i].data]
                     /\ UNCHANGED <<currentCacheSize, cacheMisses, inflight>>
    /\ pendingUpdate' = "none"
    /\ awaiting' = awaiting \ {pendingUpdate}
    /\ UNCHANGED <<vfiles, now>>
    /\ UNCHANGED <<lookupVars, indexVars, searchVars>>

\* await this.app.vault.read(file) of processFileForEmbedding resolves, and
\* the result is cached under the key made before the read; or it fails,
\* the file being deleted, and the error is logged
ReadForProcess(t) ==
    /\ t \in inflight
    /\ inflight' = inflight \ {t}
    /\ IF vfiles[t.file].exists
       THEN LET r == cacheSetResult(cache, currentCacheSize, t.cacheKey, "processed", OneHour, now)
            IN  /\ cache' = r.cache
                /\ currentCacheSize' = r.size
                /\ cret' = [op |-> "set", key |-> t.cacheKey, age |-> OneHour, val |-> "processed"]
       ELSE UNCHANGED <<cache, currentCacheSize, cret>>
    /\ UNCHANGED <<cacheHits, cacheMisses, now, vfiles, pendingUpdate, awaiting>>
    /\ UNCHANGED <<lookupVars, indexVars, searchVars>>

SchedInit ==
    /\ vfiles = [f \in FileIds |->
                    [exists |-> TRUE, path |-> IF f = "f1" THEN "n1.md" ELSE "n2.md", mtime |-> 0]]
    /\ pendingUpdate = "none"
    /\ inflight = {}
    /\ awaiting = {}

SchedNext ==
    \/ \E f \in FileIds : OnModify(f)
    \/ \E f \in FileIds : OnDelete(f)
    \/ \E f \in FileIds, path \in FilePaths : OnRename(f, path)
    \/ performEmbeddingUpdate
    \/ \E f \in FileIds, path \in FilePaths, mtime \in 0..MaxMtime :
          ReadForProcess([file |-> f, cacheKey |-> EmbeddingKey(path, mtime)])

Init == CacheInit /\ LookupInit /\ IndexInit /\ SearchInit /\ SchedInit

\* only the index reads the notes of docs: the other specifications leave it on an empty vault
InitEmpty == Init /\ docs = EmptyVault

CacheSpec == InitEmpty /\ [][CacheNext]_vars

LookupSpec == InitEmpty /\ [][LookupNext]_vars

IndexSpec == Init /\ [][IndexNext]_vars

SearchSpec == InitEmpty /\ [][SearchNext]_vars

SchedSpec == InitEmpty /\ [][SchedNext]_vars

(***************************************************************************)
(* Properties of the cache.                                                *)
(***************************************************************************)

\* C1 (as claimed): after any sequence of cacheSet calls, whatever the keys and
\* the sizes of the values, the tracked aggregate size of the cached entries
\* never exceeds maxCacheSize.
C1_CacheBound == currentCacheSize <= maxCacheSize

(***************************************************************************)
(* Properties of lookupNote.                                               *)
(***************************************************************************)
IsMarkdown(f) == f.extension = Md

\* a file's name without its extension
BaseOf(f) == SubSeq(f.name, 1, Len(f.name) - Len(f.extension) - 1)

\* the file's name, minus extension, equals the title exactly or case-insensitively
NamedExactly(f, title) ==
    BaseOf(f) = title \/ toLowerCase(BaseOf(f)) = toLowerCase(title)

MarkdownFiles == {i \in 1..Len(vault) : IsMarkdown(vault[i])}

\* C3 (as claimed): for every markdown document D of the vault, lookupNote of
\* D's name without extension returns D's path, also when two documents have
\* names that are equal or differ only in letter case.
C3_RoundTrip ==
    lres.called =>
        \A i \in MarkdownFiles :
            BaseOf(vault[i]) = lres.title => lres.path = vault[i].path

\* C4 (as claimed): whenever some markdown document's name equals the title
\* exactly or case-insensitively, lookupNote returns the path of a document
\* that matches exactly, whatever the enumeration order.
C4_ExactPreferred ==
    (lres.called /\ \E i \in MarkdownFiles : NamedExactly(vault[i], lres.title)) =>
        \E j \in MarkdownFiles :
            NamedExactly(vault[j], lres.title) /\ lres.path = vault[j].path

\* C5 (as claimed): every non-null resolution is backed by a winning candidate
\* whose score, from whatever strategy, is greater than 30.
C5_ResolutionFloor ==
    (lres.called /\ lres.path # NULL) => lres.best[1].score > 30

\* C5 (amended): lookupNote returns the path of its winning candidate; a winner
\* of the fuzzy strategy scores more than 30, a winner of the partial strategy
\* scores at least 10 (a word-by-word match may score 30 or less), and a winner
\* of the exact strategies scores 95 or 100.  It returns null only if no
\* markdown file is named like the title and none has a fuzzy score above 30.
C5_StrategyFloors ==
    lres.called =>
        /\ lres.path # NULL =>
              LET b == lres.best[1]
              IN  /\ b.file.path = lres.path
                  /\ b.matchType = "fuzzy" => b.score > 30
                  /\ b.matchType = "partial" => b.score >= 10 /\ b.score <= 85
                  /\ b.matchType = "exact" => b.score \in {95, 100}
        /\ lres.path = NULL =>
              \A i \in MarkdownFiles :
                  /\ ~NamedExactly(vault[i], trim(lres.title))
                  /\ \/ trim(lres.title) = <<>>
                     \/ calculateFuzzyMatch(toLowerCase(BaseOf(vault[i])),
                                            toLowerCase(trim(lres.title))) <= 30

\* C5 witness: lookupNote has returned a word-by-word partial match scoring 30 or less.
C5_Witness ==
    /\ lres.called
    /\ lres.path # NULL
    /\ lres.best[1].matchType = "partial"
    /\ lres.best[1].score <= 30

\* C6 (as claimed): if no markdown document matches the title exactly and
\* exactly one equals it after sanitization, lookupNote returns that one's
\* path, whatever other documents are in the vault.
C6_SanitizedResolution ==
    LET same == {i \in MarkdownFiles :
                    sanitizeSearchTerm(BaseOf(vault[i])) = sanitizeSearchTerm(lres.title)}
    IN  ( /\ lres.called
          /\ \A i \in MarkdownFiles : ~NamedExactly(vault[i], lres.title)
          /\ Cardinality(same) = 1 ) =>
            \A i \in same : lres.path = vault[i].path

(***************************************************************************)
(* Properties of the index.                                                *)
(***************************************************************************)
\* C2 (vector-length invariant): in every state reached by initialize,
\* buildEmbeddings, updateNoteEmbedding, removeNoteEmbedding,
\* rebuildEmbeddings and changes of the document store, every stored
\* embedding's vector has as many components as the vocabulary has terms.
\* The commit of a build is one step, so every state is outside of it.
C2_VectorLength ==
    \A i \in 1..Len(embeddings) : Len(embeddings[i].vector) = Cardinality(vocabulary)

\* the similarity of a stored embedding to the query of the last search
QuerySimilarity(e) ==
    cosineSimilarity(createQueryVector(ires.query, vocabulary, idfScores), e.vector)

\* the paths the last query returned
Returned == {ires.results[i].note.path : i \in 1..Len(ires.results)}

C8_SelfExclusion ==
    ires.op = "similar" => ires.file \notin Returned

\* findSimilarNotes found a similar note for a note that is indexed
C8_Witness ==
    /\ ires.op = "similar"
    /\ MapHas(embeddings, ires.file)
    /\ ires.results # <<>>

\* the step in which the read of the updateNoteEmbedding call in slot s resolves
UpdateReads(s) ==
    /\ tasks[s].stage = "read"
    /\ tasks'[s] # tasks[s]
    /\ CanRead(docs, tasks[s].file)

\* the step in which the build that the updateNoteEmbedding call in slot s started completes
UpdateBuildCompletes(s) ==
    /\ tasks[s].op = "update"
    /\ tasks[s].stage = "build"
    /\ tasks'[s].op = "idle"

\* the position of the file in what a build has read, if it has read it
ReadAt(noteData, file) == {k \in 1..Len(noteData) : noteData[k].path = file}

\* C9 (full build on new document): when updateNoteEmbedding has read a note
\* that has no embedding, it starts a build over all the listed files; when
\* that build completes the vocabulary and the IDF table are those of the
\* documents the build has read, and if the note was still readable when the
\* build read it, the note has an embedding and the vocabulary holds its terms.
C9_FullBuildOnNew ==
    [][\A s \in Slots :
          /\ (UpdateReads(s) /\ ~MapHas(embeddings, tasks[s].file)) =>
                 /\ tasks'[s].op = "update"
                 /\ tasks'[s].stage = "build"
                 /\ tasks'[s].listing = ListFiles(docs)
                 /\ tasks'[s].noteData = <<>>
          /\ UpdateBuildCompletes(s) =>
                 LET documents == DocumentsOf(ires'.noteData)
                 IN  /\ ires'.op = "update"
                     /\ ires'.built
                     /\ vocabulary' = buildVocabulary(documents)
                     /\ idfScores' = calculateIdfScores(buildVocabulary(documents), documents)
                     /\ \A k \in ReadAt(ires'.noteData, tasks[s].file) :
                            /\ MapHas(embeddings', tasks[s].file)
                            /\ MapGet(embeddings', tasks[s].file).content = ires'.noteData[k].content
                            /\ Range(TermsOf(ires'.noteData[k].content)) \subseteq vocabulary'
    ]_vars

\* an update of a note without an embedding has completed its build, which
\* has read the note with another one
C9_Witness ==
    /\ ires.op = "update"
    /\ ires.built
    /\ ReadAt(ires.noteData, ires.file) # {}
    /\ Len(ires.noteData) >= 2
    /\ MapHas(embeddings, ires.file)

\* C10 (incremental update frame): updateNoteEmbedding on a note that has an
\* embedding replaces that embedding by one of the new content over the
\* vocabulary as it is; the vocabulary, the IDF table and every other
\* embedding are unchanged, whatever terms the new content holds.
C10_IncrementalFrame ==
    [][\A s \in Slots :
          (UpdateReads(s) /\ MapHas(embeddings, tasks[s].file)) =>
              /\ vocabulary' = vocabulary
              /\ idfScores' = idfScores
              /\ Len(embeddings') = Len(embeddings)
              /\ \A i \in 1..Len(embeddings) :
                     IF embeddings[i].path = tasks[s].file
                     THEN /\ embeddings'[i].path = tasks[s].file
                          /\ embeddings'[i].content = preprocessText(docs[tasks[s].file].text)
                          /\ Len(embeddings'[i].vector) = Cardinality(vocabulary)
                     ELSE embeddings'[i] = embeddings[i]
    ]_vars

\* an update has replaced the embedding of a note whose new content holds
\* terms outside the vocabulary, beside the embedding of another note
C10_Witness ==
    /\ ires.op = "update"
    /\ ~ires.built
    /\ ires.noteData # <<>>
    /\ ~(Range(TermsOf(ires.noteData[1].content)) \subseteq vocabulary)
    /\ Len(embeddings) >= 2

\* C11 (removal frame): removeNoteEmbedding(path) deletes exactly the embedding
\* stored under path, and nothing when there is none; the vocabulary, the IDF
\* table, the initialized flag and all other embeddings are left unchanged.
C11_RemovalFrame ==
    [][ires'.op = "remove" =>
           LET path == ires'.file
               kept == {i \in 1..Len(embeddings) : embeddings[i].path # path}
           IN  /\ ~MapHas(embeddings', path)
               /\ Len(embeddings') = Cardinality(kept)
               /\ \A i \in kept : \E j \in 1..Len(embeddings') : embeddings'[j] = embeddings[i]
               /\ ~MapHas(embeddings, path) => embeddings' = embeddings
               /\ vocabulary' = vocabulary
               /\ idfScores' = idfScores
               /\ isInitialized' = isInitialized]_vars

\* C11 witness: on the index of two unchanged notes, one embedding has been
\* removed and the other one and the vocabulary are still there.
C11_Witness ==
    /\ ires.op = "remove"
    /\ isInitialized
    /\ nChanges = 0
    /\ \A p \in Paths : CanRead(docs, p)
    /\ Len(embeddings) = 1
    /\ ~MapHas(embeddings, ires.file)
    /\ vocabulary # {}

\* the paths of the files a build has read
PathsOf(noteData) == {noteData[k].path : k \in 1..Len(noteData)}

\* C12 (build tolerates read failures): a read of buildEmbeddings that fails
\* stops nothing: the build goes on to its next file with what it has read,
\* and after its last file it commits, and every listed document that was
\* read has the embedding this build computes for it.
C12_BuildToleratesFailures ==
    [][\A s \in Slots :
          (tasks[s].stage = "build" /\ tasks'[s] # tasks[s]) =>
              LET t    == tasks[s]
                  p    == Head(t.listing)
                  read == IF CanRead(docs, p)
                          THEN Append(t.noteData, [path |-> p, content |-> preprocessText(docs[p].text)])
                          ELSE t.noteData
              IN  IF Tail(t.listing) # <<>>
                  THEN /\ tasks'[s].stage = "build"
                       /\ tasks'[s].listing = Tail(t.listing)
                       /\ tasks'[s].noteData = read
                  ELSE /\ tasks'[s].op = "idle"
                       /\ ires'.built
                       /\ ires'.noteData = read
                       /\ \A k \in 1..Len(read) :
                             /\ MapHas(embeddings', read[k].path)
                             /\ MapGet(embeddings', read[k].path) =
                                    createNoteEmbedding(read[k].path, read[k].content,
                                                        vocabulary', idfScores')]_vars

\* C12 witness: a build has completed that read one note first and then
\* failed to read the other one.
C12_Witness ==
    /\ ires.built
    /\ nChanges = 1
    /\ docs["n1.md"].exists /\ docs["n1.md"].readable
    /\ docs["n2.md"].exists /\ ~docs["n2.md"].readable
    /\ PathsOf(ires.noteData) = {"n1.md"}
    /\ MapHas(embeddings, "n1.md")

\* C13 (as claimed): when a build completes, whoever started it, a document
\* that the build could not read has no embedding in the index, even if an
\* earlier build had indexed it.  Stated on the file the build reads last.
C13_UnreadableAbsent ==
    [][\A s \in Slots :
          ( /\ tasks[s].stage = "build"
            /\ tasks'[s].op = "idle"
            /\ ~CanRead(docs, Head(tasks[s].listing)) ) =>
              ~MapHas(embeddings', Head(tasks[s].listing))]_vars

\* the index is what buildEmbeddings leaves after it has read noteData
IsBuildOf(emb, vocab, idf, noteData) ==
    /\ vocab = buildVocabulary(DocumentsOf(noteData))
    /\ idf = calculateIdfScores(vocab, DocumentsOf(noteData))
    /\ \A k \in 1..Len(noteData) :
          /\ MapHas(emb, noteData[k].path)
          /\ MapGet(emb, noteData[k].path) =
                 createNoteEmbedding(noteData[k].path, noteData[k].content, vocab, idf)

\* C14 (build idempotence): a buildEmbeddings that completes on the index a
\* build of the same documents has left, reading the same contents again,
\* leaves the vocabulary, the IDF table and the embeddings as they were.
C14_BuildIdempotent ==
    [][(ires'.op = "build" /\ ires'.built
            /\ IsBuildOf(embeddings, vocabulary, idfScores, ires'.noteData)) =>
          /\ vocabulary' = vocabulary
          /\ idfScores' = idfScores
          /\ embeddings' = embeddings]_vars

\* C14 witness: on two unchanged notes, a buildEmbeddings has completed as the
\* second of two calls, none of which was an initialization or a query, and
\* the index holds the two notes.
C14_Witness ==
    /\ ires.op = "build"
    /\ ires.built
    /\ Len(ires.noteData) = 2
    /\ nCalls = 2
    /\ nChanges = 0
    /\ ~isInitialized
    /\ \A s \in Slots : tasks[s].op = "idle"
    /\ Len(embeddings) = 2
    /\ IsBuildOf(embeddings, vocabulary, idfScores, ires.noteData)

\* t1 <= t2 on thresholds, which are not negative
ThresholdLe(t1, t2) == t1.d * t1.d * t2.m <= t2.d * t2.d * t1.m

\* the number of results of the completed search, had its threshold been th
CountWith(th) ==
    Len(semanticSearchResult(embeddings, vocabulary, idfScores, ires.query, ires.limit, th))

\* C15 (monotonic threshold): on the index, query and limit of a completed
\* semanticSearch, a threshold at least as high returns at most as many
\* results as the search did, and one at most as high returns at least as many.
C15_MonotonicThreshold ==
    ires.op = "search" =>
        /\ CountWith(ires.threshold) = Len(ires.results)
        /\ \A th \in Thresholds :
              /\ ThresholdLe(ires.threshold, th) => CountWith(th) <= Len(ires.results)
              /\ ThresholdLe(th, ires.threshold) => CountWith(th) >= Len(ires.results)

\* C15 witness: a search has returned a note at the threshold 0.1 that the
\* threshold 0.5 leaves out.
C15_Witness ==
    /\ ires.op = "search"
    /\ ires.threshold = Threshold(1, 10)
    /\ Len(ires.results) = 1
    /\ CountWith(Threshold(1, 2)) = 0

\* queries without a token: "", " ", "the" (a stop word) and "ab" (too short)
TokenlessQueries ==
    { <<>>, <<" ">>, <<"t", "h", "e">>, <<"a", "b">> }

\* C16 (empty query is not an error): on every index, a query that yields no
\* token makes semanticSearch return the empty list at the default threshold;
\* so does every completed call with such a query.
C16_EmptyQuery ==
    /\ \A q \in TokenlessQueries :
          /\ TermsOf(preprocessText(q)) = <<>>
          /\ semanticSearchResult(embeddings, vocabulary, idfScores, q,
                                  MaxLimit, DefaultThreshold) = <<>>
    /\ ( /\ ires.op = "search"
         /\ TermsOf(preprocessText(ires.query)) = <<>>
         /\ ires.threshold = DefaultThreshold ) => ires.results = <<>>

\* C16 witness: a search with the empty query, a limit of 1 and the default
\* threshold has completed on an index whose vocabulary is not empty and that
\* holds a note with a vector that is not zero.
C16_Witness ==
    /\ ires.op = "search"
    /\ ires.query = <<>>
    /\ ires.limit = 1
    /\ ires.threshold = DefaultThreshold
    /\ vocabulary # {}
    /\ \E i \in 1..Len(embeddings) :
          /\ Len(embeddings[i].vector) = Cardinality(vocabulary)
          /\ ~HasNaN(embeddings[i].vector)
          /\ NormOf(embeddings[i].vector) # 0

(***************************************************************************)
(* Properties of the cache.                                                *)
(***************************************************************************)
\* the step is a call of cacheGet: the only one that counts a hit or a miss
IsCacheGet == cacheHits' + cacheMisses' = cacheHits + cacheMisses + 1

\* C17 (cache read contract): cacheGet(key, maxAge) returns the stored value
\* exactly when the key is present and now minus the entry's timestamp is at
\* most maxAge, and then it adds one to the entry's access count and sets its
\* timestamp to now; otherwise it returns not-found, and an entry that was
\* present but too old is removed and its size deducted from the aggregate.
C17_CacheReadContract ==
    [][IsCacheGet =>
          LET key     == cret'.key
              present == \E i \in 1..Len(cache) : cache[i].key = key
              i       == CHOOSE j \in 1..Len(cache) : cache[j].key = key
              fresh   == present /\ now - cache[i].timestamp <= cret'.age
          IN  /\ cret'.op = "get"
              /\ IF fresh
                 THEN /\ cret'.val = cache[i].data
                      /\ cache' = [cache EXCEPT ![i] = [cache[i] EXCEPT
                                                           !.accessCount = cache[i].accessCount + 1,
                                                           !.timestamp = now]]
                      /\ currentCacheSize' = currentCacheSize
                      /\ cacheHits' = cacheHits + 1
                 ELSE /\ cret'.val = "null"
                      /\ cacheMisses' = cacheMisses + 1
                      /\ IF present
                         THEN /\ cache' = SelectSeq(cache, LAMBDA e : e.key # key)
                              /\ currentCacheSize' = currentCacheSize - cache[i].size
                         ELSE /\ cache' = cache
                              /\ currentCacheSize' = currentCacheSize]_vars

\* C17 witness: after the clock has advanced, an entry has been read with a
\* maxAge of an hour: its value is returned, it has been accessed once, and
\* its timestamp is the time of the read.
C17_Witness ==
    /\ cret.op = "get"
    /\ cret.age = OneHour
    /\ cret.val = "small"
    /\ now = TickMs
    /\ cacheHits = 1
    /\ \E i \in 1..Len(cache) :
          /\ cache[i].key = cret.key
          /\ cache[i].accessCount = 1
          /\ cache[i].timestamp = now

\* C18 (as claimed): when cacheSet evicts, of two cached entries with the same
\* access count the one accessed or inserted longer ago goes first: the more
\* recent one is never evicted while the older one is kept.
C18_StaleEvictedFirst ==
    [][cret'.op = "set" =>
          \A i, j \in 1..Len(cache) :
              ( /\ cache[i].key # cret'.key
                /\ cache[j].key # cret'.key
                /\ cache[i].accessCount = cache[j].accessCount
                /\ cache[i].timestamp < cache[j].timestamp
                /\ \E k \in 1..Len(cache') : cache'[k].key = cache[i].key ) =>
                  \E k \in 1..Len(cache') : cache'[k].key = cache[j].key]_vars

\* C19 (as claimed): cacheSet, cacheGet, cacheDelete and cacheClear return
\* normally for every key and value; cacheSet raises no error on a value whose
\* size cannot be estimated.
C19_NeverThrows == cret.op # "throw"

\* C20 (as claimed): a build that has read the documents of a vault that never
\* changed leaves, for each of them, an embedding whose tags list every
\* hashtag-like token #t of the document's raw text.
C20_TagsExtracted ==
    (ires.built /\ nChanges = 0) =>
        \A k \in 1..Len(ires.noteData) :
            LET path == ires.noteData[k].path
            IN  /\ MapHas(embeddings, path)
                /\ Range(TagMatches(docs[path].text, 1)) \subseteq Range(MapGet(embeddings, path).tags)

(***************************************************************************)
(* Properties of the content search.                                       *)
(***************************************************************************)
\* C21 (as claimed): in the list searchNotesByContent returns, every file
\* whose name contains the search term comes before every file that matches
\* only in its content, however often; and the list has at most maxResults
\* entries.
C21_TitleFirst ==
    sres.called =>
        LET inTitle(name) == includes(toLowerCase(SubSeq(name, 1, Len(name) - 3)),
                                      toLowerCase(sres.searchTerm))
        IN  /\ Len(sres.ranked) <= sres.maxResults
            /\ \A i, j \in 1..Len(sres.ranked) :
                  (inTitle(sres.ranked[i].file) /\ ~inTitle(sres.ranked[j].file)) => i < j

(***************************************************************************)
(* Properties of the index under interleaving.                             *)
(***************************************************************************)
\* C22 (as claimed): while a build started by initialize is in progress, a
\* further initialize, semanticSearch or findSimilarNotes waits for it and
\* starts no second build: at most one initialization reads the vault at a time.
C22_SingleInitialization ==
    Cardinality({s \in Slots : /\ tasks[s].stage = "build"
                               /\ tasks[s].op \in {"initialize", "search", "similar"}}) <= 1


\* C23 (build ordering): a read of a build that is not its last one stores
\* nothing in the index; the step that completes a build leaves the
\* vocabulary and the IDF table of all the documents this build has read,
\* and the vector and the keywords of every embedding it stores are computed
\* against that complete vocabulary and IDF table, whatever other calls and
\* changes of the store have interleaved with its reads.
C23_BuildOrdering ==
    [][\A s \in Slots :
          (tasks[s].stage = "build" /\ tasks'[s] # tasks[s]) =>
              IF tasks'[s].stage = "build"
              THEN /\ embeddings' = embeddings
                   /\ vocabulary' = vocabulary
                   /\ idfScores' = idfScores
              ELSE LET noteData == ires'.noteData
                       vocab    == buildVocabulary(DocumentsOf(noteData))
                       idf      == calculateIdfScores(vocab, DocumentsOf(noteData))
                   IN  /\ vocabulary' = vocab
                       /\ idfScores' = idf
                       /\ \A k \in 1..Len(noteData) :
                             LET e     == MapGet(embeddings', noteData[k].path)
                                 words == TermsOf(noteData[k].content)
                             IN  /\ Len(e.vector) = Cardinality(vocab)
                                 /\ e.vector = TfIdfVector(words, vocab, idf)
                                 /\ e.keywords = Take(SortTermScores(Distinct(words), words, idf), 10)]_vars

\* C23 witness: a build has completed as the second of two calls, it has read
\* two notes, the second of which brought terms the first one has not, and
\* both embeddings have a component for every term of the vocabulary.
C23_Witness ==
    /\ ires.built
    /\ nCalls = 2
    /\ Len(ires.noteData) = 2
    /\ buildVocabulary(DocumentsOf(SubSeq(ires.noteData, 1, 1))) # vocabulary
    /\ Len(embeddings) = 2
    /\ \A i \in 1..Len(embeddings) : Len(embeddings[i].vector) = Cardinality(vocabulary)


\* C24 (vocabulary drift is absorbed): on every index the program reaches,
\* for every query and every threshold that is not negative, semanticSearch
\* returns no embedding whose vector has another length than the query
\* vector, and findSimilarNotes returns for no note an embedding whose vector
\* has another length than the vector of that note; the same holds of the
\* results of the call that has completed, which returned them without error.
C24_DriftAbsorbed ==
    /\ \A q \in Queries, th \in Thresholds \cup {Threshold(0, 1)} :
          LET results == semanticSearchResult(embeddings, vocabulary, idfScores, q, Len(embeddings), th)
          IN  \A k \in 1..Len(results) :
                 Len(results[k].note.vector) = Len(createQueryVector(q, vocabulary, idfScores))
    /\ \A p \in Paths :
          LET results == findSimilarNotesResult(embeddings, p, Len(embeddings))
          IN  \A k \in 1..Len(results) :
                 Len(results[k].note.vector) = Len(MapGet(embeddings, p).vector)
    /\ ires.op = "search" =>
          \A k \in 1..Len(ires.results) :
             Len(ires.results[k].note.vector) = Cardinality(vocabulary)
    /\ ires.op = "similar" =>
          \A k \in 1..Len(ires.results) :
             Len(ires.results[k].note.vector) = Len(MapGet(embeddings, ires.file).vector)

\* C24 witness: a semanticSearch for "cat" has completed on an index with a
\* vocabulary, in which the embedding of a note that holds the word "cat" has
\* a vector longer than the vocabulary, and the search has not returned it.
C24_Witness ==
    /\ ires.op = "search"
    /\ ires.query = <<"c", "a", "t">>
    /\ vocabulary # {}
    /\ \E i \in 1..Len(embeddings) :
          /\ Len(embeddings[i].vector) > Cardinality(vocabulary)
          /\ <<"c", "a", "t">> \in Range(TermsOf(embeddings[i].content))
          /\ \A k \in 1..Len(ires.results) : ires.results[k].note.path # embeddings[i].path


\* C25 (as claimed): an entry stored by cacheSet(key, value, ttl) with a ttl
\* below the default maxAge is not returned by a cacheGet(key) with the default
\* maxAge that is made more than ttl after the entry was stored.
C25_TtlGovernsLifetime ==
    [][( /\ cret.op = "set"
         /\ cret.age < OneHour
         /\ IsCacheGet
         /\ cret'.key = cret.key
         /\ cret'.age = OneHour
         /\ \E i \in 1..Len(cache) :
               cache[i].key = cret.key /\ now - cache[i].timestamp > cret.age )
          => cret'.val = "null"]_vars


(***************************************************************************)
(* Properties of the scheduled embedding updates.                          *)
(***************************************************************************)
\* C26 (as claimed): no scheduled update is lost: once the debouncer has run
\* and holds no call, every file that was passed to scheduleEmbeddingUpdate
\* and still exists has been handed to processFileForEmbedding.
C26_NoUpdateLost ==
    pendingUpdate = "none" => \A f \in awaiting : ~vfiles[f].exists


(***************************************************************************)
(* Accounting of the cache.                                                *)
(***************************************************************************)
\* C27 (cache size accounting): after every cacheSet, cacheGet, cacheDelete,
\* cacheClear and background sweep, currentCacheSize is the sum of the sizes
\* of the entries the cache holds, and it is not negative.
C27_SizeAccounting ==
    /\ currentCacheSize = SumSeq([i \in 1..Len(cache) |-> cache[i].size])
    /\ currentCacheSize >= 0

\* C27 witness: after an entry has expired on a read and another read has
\* hit, a cacheSet has brought the cache to two entries of 50MB together.
C27_Witness ==
    /\ cret.op = "set"
    /\ cacheMisses = 1
    /\ cacheHits = 1
    /\ now = 2 * TickMs
    /\ Len(cache) = 2
    /\ currentCacheSize = 50 * MB


(***************************************************************************)
(* Properties of the index under concurrent builds.                        *)
(***************************************************************************)
\* C28 (as claimed): removeNoteEmbedding(path) has returned for a note that
\* is deleted from the store; if the next step leaves no index operation in
\* progress, the path has no embedding after it, even when that step is the
\* completion of a build that had read the note before it was deleted.
C28_DeletionNotUndone ==
    [][( /\ ires.op = "remove"
         /\ ~docs[ires.file].exists
         /\ ~docs'[ires.file].exists
         /\ \A s \in Slots : tasks'[s].op = "idle" )
          => ~MapHas(embeddings', ires.file)]_vars


\* C29 (as claimed): updateNoteEmbedding has read the current content of a
\* note that had an embedding and has stored the embedding of that content;
\* if the next step leaves no index operation in progress and the note is as
\* it was, the embedding of the note is still the one of the current content,
\* even when that step is the completion of a build that had read the note
\* before it changed.
C29_NoLostUpdate ==
    [][( /\ ires.op = "update"
         /\ Len(ires.noteData) = 1
         /\ ~ires.built
         /\ CanRead(docs, ires.file)
         /\ ires.noteData[1].content = preprocessText(docs[ires.file].text)
         /\ docs' = docs
         /\ \A s \in Slots : tasks'[s].op = "idle" )
          => /\ MapHas(embeddings', ires.file)
             /\ MapGet(embeddings', ires.file).content = preprocessText(docs[ires.file].text)]_vars


(***************************************************************************)
(* Properties of the memoized embeddings.                                  *)
(***************************************************************************)
\* C30 (as claimed): when the vault reports a file deleted, or renamed away
\* from a path, while no processFileForEmbedding is awaiting a read, the
\* handler leaves in the cache no entry that processFileForEmbedding has
\* stored for that file at that path, whatever its modification time.
C30_InvalidatedOnDeleteRename ==
    [][\A f \in FileIds :
          ( /\ inflight = {}
            /\ vfiles[f].exists
            /\ ~vfiles'[f].exists \/ vfiles'[f].path # vfiles[f].path )
          => \A i \in 1..Len(cache'), mtime \in 0..MaxMtime :
                cache'[i].key # EmbeddingKey(vfiles[f].path, mtime)]_vars
====
